---- MODULE Spec2Model ----
(***************************************************************************)
(* A model of the Ship aggregator of sharpie (src/src/lib.rs).             *)
(*                                                                         *)
(* The state is the Ship record.  The sub-records Hull, Armor, Engine,     *)
(* Battery, Torpedoes ... live in modules whose code is not part of the    *)
(* source file, so each of them is represented by the values its accessors *)
(* return to the aggregator (hull.d is Hull::d(), engine.bunker is         *)
(* Engine::bunker(..) and so on).  Every metric of impl Ship is an         *)
(* operator over that state, computed in the order the code computes it.   *)
(*                                                                         *)
(* f64 values are decimal floating-point numbers [m, e] standing for       *)
(* m * 10^e, with a mantissa m of Digits significant digits; every         *)
(* operation truncates its result to that many digits, as an f64 operation *)
(* rounds to 53 bits.  Three values stand for +inf, -inf and NaN and       *)
(* follow the IEEE rules the code relies on (0/0 = NaN, x/0 = inf, every   *)
(* comparison with NaN false, f64::max/min dropping a NaN operand).        *)
(***************************************************************************)
EXTENDS Integers, Sequences, FiniteSets, TLC

VARIABLES
    year,            \* Ship.year: u32
    trim,            \* Ship.trim: u8
    hull,            \* Ship.hull, as the values of the Hull accessors
    armor,           \* Ship.armor
    engine,          \* Ship.engine
    batteries,       \* Ship.batteries: Vec<Battery>
    torps,           \* Ship.torps: Vec<Torpedoes>
    mines,           \* Ship.mines
    asw,             \* Ship.asw: Vec<ASW>
    wgts,            \* Ship.wgts: MiscWgts
    overflow_checks, \* build profile: are integer overflow checks compiled in
    out,             \* what the last call of report() returned
    ret,             \* what the last call of a metric returned
    threads,         \* the threads that share a &Ship: where each is, and
                     \* what its last call returned
    file             \* the ship file at the path given to save() and load()

vars == <<year, trim, hull, armor, engine, batteries, torps, mines, asw, wgts,
          overflow_checks, out, ret, threads, file>>

ship == <<year, trim, hull, armor, engine, batteries, torps, mines, asw, wgts>>

----------------------------------------------------------------------------
(* f64 *)

\* Mantissas have six significant decimal digits: Ten5 <= |m| < Ten6.
Ten3 == 10 * 10 * 10
Ten5 == Ten3 * 10 * 10
Ten6 == Ten5 * 10

\* Decimal exponents beyond MaxExp overflow to an infinity, below -MaxExp
\* underflow to zero.
MaxExp == 3 * 10 * 10
InfExp == MaxExp + 10 * 10
NaNExp == InfExp + 1

\* The largest integer the model computes with.
MaxInt == 2 * Ten3 * Ten6

Zero == [m |-> 0, e |-> 0]
Inf  == [m |-> 1, e |-> InfExp]
NInf == [m |-> 0 - 1, e |-> InfExp]
NaN  == [m |-> 0, e |-> NaNExp]

IsNaN(x)    == x.e = NaNExp
IsInf(x)    == x.e = InfExp
IsFinite(x) == ~IsNaN(x) /\ ~IsInf(x)

Abs(n) == IF n < 0 THEN 0 - n ELSE n
Sgn(n) == IF n < 0 THEN 0 - 1 ELSE IF n > 0 THEN 1 ELSE 0

\* The powers of ten 10^0 .. 10^9.
Pow10(k) ==
    <<1, 10, 100, Ten3, 10 * Ten3, Ten5, Ten6, 10 * Ten6, 100 * Ten6,
      Ten3 * Ten6>>[k + 1]

\* The number of decimal digits of n >= 1.
Digits(n) ==
    CASE n < 10 -> 1
      [] n >= 10 /\ n < 100 -> 2
      [] n >= 100 /\ n < Ten3 -> 3
      [] n >= Ten3 /\ n < 10 * Ten3 -> 4
      [] n >= 10 * Ten3 /\ n < Ten5 -> 5
      [] n >= Ten5 /\ n < Ten6 -> 6
      [] n >= Ten6 /\ n < 10 * Ten6 -> 7
      [] n >= 10 * Ten6 /\ n < 100 * Ten6 -> 8
      [] n >= 100 * Ten6 /\ n < Ten3 * Ten6 -> 9
      [] OTHER -> 10

\* `let x = v; body`: the value of v is computed once, before the body is
\* entered.
Let(v, Body(_)) == CHOOSE r \in {Body(x) : x \in {v}} : TRUE
Let2(v, w, Body(_, _)) == CHOOSE r \in {Body(x[1], x[2]) : x \in {<<v, w>>}} : TRUE
Let3(u, v, w, Body(_, _, _)) ==
    CHOOSE r \in {Body(x[1], x[2], x[3]) : x \in {<<u, v, w>>}} : TRUE
Let4(t, u, v, w, Body(_, _, _, _)) ==
    CHOOSE r \in {Body(x[1], x[2], x[3], x[4]) : x \in {<<t, u, v, w>>}} : TRUE

\* The f64 of sign s and magnitude n * 10^e, n of k digits, brought to six.
MkDigits(s, n, e, k) ==
    CASE n = 0 \/ s = 0 -> Zero
      [] n # 0 /\ s # 0 /\ e + k - 6 > MaxExp -> IF s < 0 THEN NInf ELSE Inf
      [] n # 0 /\ s # 0 /\ e + k - 6 < 0 - MaxExp -> Zero
      [] n # 0 /\ s # 0 /\ Abs(e + k - 6) <= MaxExp /\ k > 6 ->
            [m |-> s * (n \div Pow10(k - 6)), e |-> e + k - 6]
      [] OTHER -> [m |-> s * n * Pow10(6 - k), e |-> e + k - 6]

\* The f64 of sign s and magnitude n * 10^e.
Mk(s, n, e) == MkDigits(s, n, e, Digits(n))

\* The f64 of the signed integer v times 10^e.
MkSigned(v, e) == Mk(Sgn(v), Abs(v), e)

\* An integer n as an f64 (n as f64).
F(n) == MkSigned(n, 0)

FNeg(a) == IF IsNaN(a) THEN NaN ELSE [m |-> 0 - a.m, e |-> a.e]
FAbs(a) == IF IsNaN(a) THEN NaN ELSE [m |-> Abs(a.m), e |-> a.e]

\* hi + lo, both finite and non-zero, hi of the larger exponent: lo is
\* shifted to it, two guard digits kept.
FAddOrdered(hi, lo) ==
    IF hi.e - lo.e > 7 THEN hi
    ELSE MkSigned(hi.m * 100
                    + Sgn(lo.m) * ((Abs(lo.m) * 100) \div Pow10(hi.e - lo.e)),
                  hi.e - 2)

\* a + b
FAdd(a, b) ==
    CASE a.e = NaNExp \/ b.e = NaNExp -> NaN
      [] a.e = InfExp /\ b.e = InfExp -> IF a = b THEN a ELSE NaN
      [] a.e = InfExp /\ b.e < InfExp -> a
      [] a.e < InfExp /\ b.e = InfExp -> b
      [] a.e < InfExp /\ b.e < InfExp /\ a.m = 0 -> b
      [] a.e < InfExp /\ b.e < InfExp /\ a.m # 0 /\ b.m = 0 -> a
      [] OTHER -> IF a.e >= b.e THEN FAddOrdered(a, b) ELSE FAddOrdered(b, a)

FSub(a, b) == FAdd(a, FNeg(b))

\* Comparisons: every comparison with NaN is false.  Of two values of one
\* sign the exponent decides, then the mantissa; the infinities are beyond
\* every exponent.
FLt(a, b) ==
    /\ ~IsNaN(a) /\ ~IsNaN(b)
    /\ IF Sgn(a.m) # Sgn(b.m) THEN Sgn(a.m) < Sgn(b.m)
       ELSE IF a.m > 0 THEN a.e < b.e \/ (a.e = b.e /\ a.m < b.m)
       ELSE IF a.m < 0 THEN a.e > b.e \/ (a.e = b.e /\ a.m < b.m)
       ELSE FALSE
FEq(a, b) == ~IsNaN(a) /\ ~IsNaN(b) /\ a = b
FLe(a, b) == FLt(a, b) \/ FEq(a, b)
FGt(a, b) == FLt(b, a)
FGe(a, b) == FLe(b, a)

\* f64::max and f64::min return the other operand when one is NaN.
FMax(a, b) ==
    IF IsNaN(a) THEN b ELSE IF IsNaN(b) THEN a ELSE IF FLt(a, b) THEN b ELSE a
FMin(a, b) ==
    IF IsNaN(a) THEN b ELSE IF IsNaN(b) THEN a ELSE IF FLt(a, b) THEN a ELSE b

\* The leading seven or eight digits of the product of two mantissas given
\* as three-digit halves a1 a0 and b1 b0.
MulMant(a1, a0, b1, b0) ==
    a1 * b1 * 10 + ((a1 * b0 + a0 * b1) * Ten3 + a0 * b0) \div Ten5

\* a * b
FMul(a, b) ==
    CASE a.e = NaNExp \/ b.e = NaNExp -> NaN
      [] a.e = InfExp \/ b.e = InfExp ->
            IF a.m = 0 \/ b.m = 0 THEN NaN
            ELSE IF Sgn(a.m) * Sgn(b.m) < 0 THEN NInf ELSE Inf
      [] a.e < InfExp /\ b.e < InfExp /\ (a.m = 0 \/ b.m = 0) -> Zero
      [] OTHER -> Mk(Sgn(a.m) * Sgn(b.m),
                     MulMant(Abs(a.m) \div Ten3, Abs(a.m) % Ten3,
                             Abs(b.m) \div Ten3, Abs(b.m) % Ten3),
                     a.e + b.e + 5)

\* The quotient of two mantissas a and b to seven digits, by long division
\* three digits at a time.
DivMant(a, b) ==
    (a \div b) * Ten6 + (((a % b) * Ten3) \div b) * Ten3
        + ((((a % b) * Ten3) % b) * Ten3) \div b

\* a / b
FDiv(a, b) ==
    CASE a.e = NaNExp \/ b.e = NaNExp -> NaN
      [] a.e = InfExp /\ b.e = InfExp -> NaN
      [] a.e = InfExp /\ b.e < InfExp ->
            IF Sgn(a.m) * (IF b.m < 0 THEN 0 - 1 ELSE 1) < 0 THEN NInf ELSE Inf
      [] a.e < InfExp /\ b.e = InfExp -> Zero
      [] a.e < InfExp /\ b.e < InfExp /\ b.m = 0 /\ a.m = 0 -> NaN
      [] a.e < InfExp /\ b.e < InfExp /\ b.m = 0 /\ a.m # 0 ->
            IF a.m < 0 THEN NInf ELSE Inf
      [] a.e < InfExp /\ b.e < InfExp /\ b.m # 0 /\ a.m = 0 -> Zero
      [] OTHER ->
            Mk(Sgn(a.m) * Sgn(b.m), DivMant(Abs(a.m), Abs(b.m)), a.e - b.e - 6)

\* The f64 literal num/den.
Lit(num, den) == FDiv(F(num), F(den))

\* x^k for a whole k >= 0, two bits of k at a time:
\* x^k = (x^(k div 4))^4 * x^(k mod 4).
RECURSIVE PowNat(_, _)
PowNat(x, k) ==
    CASE k = 0 -> F(1)
      [] k = 1 -> x
      [] k = 2 -> FMul(x, x)
      [] k = 3 -> FMul(FMul(x, x), x)
      [] OTHER -> Let(PowNat(x, k \div 4), LAMBDA h :
                      FMul(FMul(FMul(h, h), FMul(h, h)), PowNat(x, k % 4)))

\* Is the k-th power of the candidate mantissa m, at exponent e, <= x ?
RootFits(x, k, e, m) == FLe(PowNat([m |-> m, e |-> e], k), x)

\* The largest dg in lo..hi-1 for which base + dg * unit fits, by halving;
\* lo fits (or is 0) and hi does not.
RECURSIVE RootBisect(_, _, _, _, _, _, _)
RootBisect(x, k, e, base, unit, lo, hi) ==
    IF hi - lo <= 1 THEN lo
    ELSE IF RootFits(x, k, e, base + ((lo + hi) \div 2) * unit)
         THEN RootBisect(x, k, e, base, unit, (lo + hi) \div 2, hi)
         ELSE RootBisect(x, k, e, base, unit, lo, (lo + hi) \div 2)

\* One more digit of a root: the largest base + dg * unit, dg in 0..9, whose
\* k-th power is <= x.
RootDigit(x, k, e, base, unit) ==
    base + unit * RootBisect(x, k, e, base, unit, 0, 10)

\* The mantissa of a root from its leading digits on: base holds the digits
\* found so far, unit is the place of the next one.
RECURSIVE RootFrom(_, _, _, _, _)
RootFrom(x, k, e, base, unit) ==
    CASE unit = 0 -> base
      [] unit > 0 /\ base >= 0 ->
            RootFrom(x, k, e, RootDigit(x, k, e, base, unit), unit \div 10)

\* The k-th root of a finite x > 0: its decimal exponent is fixed by x's,
\* its mantissa found digit by digit.
RootPos(x, k) ==
    IF k = 1 THEN x
    ELSE [m |-> RootFrom(x, k, ((x.e + 5) \div k) - 5, 0, Ten5),
          e |-> ((x.e + 5) \div k) - 5]

RECURSIVE Gcd(_, _)
Gcd(a, b) == IF b = 0 THEN a ELSE Gcd(b, a % b)

\* f64::powf(x, n/d) for a rational exponent n/d >= 0 in lowest terms: NaN
\* for a negative x unless the exponent is whole.
FPowV(x, n, d) ==
    CASE n = 0 -> F(1)
      [] n # 0 /\ x.e = NaNExp -> NaN
      [] n # 0 /\ x.e < NaNExp /\ x.m < 0 /\ d # 1 -> NaN
      [] n # 0 /\ x.e = InfExp /\ ~(x.m < 0 /\ d # 1) ->
            IF x = NInf /\ n % 2 = 1 THEN NInf ELSE Inf
      [] n # 0 /\ x.e < InfExp /\ x.m = 0 -> Zero
      [] n # 0 /\ x.e < InfExp /\ x.m < 0 /\ d = 1 ->
            IF n % 2 = 1 THEN FNeg(PowNat(FAbs(x), n)) ELSE PowNat(FAbs(x), n)
      [] OTHER -> Let(RootPos(x, d), LAMBDA r : PowNat(r, n))

\* f64::powf(x, num/den) for a rational exponent num/den >= 0.
FPow(x, num, den) ==
    FPowV(x, num \div Gcd(num, den), den \div Gcd(num, den))

FSqrt(x) == FPow(x, 1, 2)

\* `x as u32`: truncates, NaN and negatives become 0, saturates at the top.
AsU32(x) ==
    IF IsNaN(x) \/ x.m <= 0 THEN 0
    ELSE IF IsInf(x) \/ x.e > 3 THEN MaxInt
    ELSE IF x.e >= 0 THEN x.m * Pow10(x.e)
    ELSE IF x.e < 0 - 6 THEN 0
    ELSE x.m \div Pow10(0 - x.e)

----------------------------------------------------------------------------
(* Bounds of the model *)

\* Design years range over 0..MaxYear.
MaxYear == 2000

\* Displacements set by hull.set_d() range over 0..MaxD tons.
MaxD == 1000

----------------------------------------------------------------------------
(* Ship: constants *)

\* Ship::POUND2TON
POUND2TON == 2240

\* Hull::FT3_PER_TON_SEA, cubic feet of sea water per long ton.
FT3_PER_TON_SEA == 35

\* Ship::default(): five batteries, two torpedo mounts.
NumBatteries == 5
NumTorps == 2

----------------------------------------------------------------------------
(* Ship: the records the aggregator reads *)

\* A hull, as the values Hull's fields and accessors give: a 1000 t cruiser.
BaseHull ==
    [ d              |-> F(1000),        \* Hull::d()
      lwl            |-> F(250),         \* Hull::lwl()
      b              |-> F(30),          \* Hull.b
      bb             |-> F(30),          \* Hull.bb
      t              |-> F(10),          \* Hull.t
      cb             |-> Lit(467, 1000), \* Hull::cb()
      cwp            |-> Lit(65, 100),   \* Hull::cwp()
      wp             |-> F(4875),        \* Hull::wp()
      ws             |-> F(9000),        \* Hull::ws()
      freeboard      |-> F(10),          \* Hull::freeboard()
      freeboard_dist |-> F(10),          \* Hull::freeboard_dist()
      free_cap       |-> [c \in BOOLEAN |-> IF c THEN F(8) ELSE F(10)],
                                         \* Hull::free_cap(cap_calc_broadside)
      len2beam       |-> Lit(8333, 1000), \* Hull::len2beam()
      shafts         |-> 2               \* what Engine::set_shafts() derives
    ]

\* The same displacement on a hull twice as long and half as wide.
LongHull ==
    [ BaseHull EXCEPT !.lwl = F(500), !.b = F(15), !.bb = F(15),
                      !.len2beam = Lit(33333, 1000) ]

\* Dimensions too small for the displacement: a block coefficient above 1.
ImpossibleHull == [ BaseHull EXCEPT !.t = F(4), !.cb = Lit(1167, 1000) ]

\* The same hull with no beam at the waterline.
ZeroBeamHull == [ BaseHull EXCEPT !.b = Zero ]

HullKinds == {BaseHull, LongHull, ImpossibleHull}

\* A battery, as the values Battery's accessors give.
NoBattery ==
    [ diam |-> Zero, gun_wgt |-> Zero, mount_wgt |-> Zero, armor_wgt |-> Zero,
      mag_wgt |-> Zero, broadside_wgt |-> Zero, wgt_adj |-> F(1), super |-> Zero,
      concentration |-> Zero,
      broad_and_below |-> FALSE, mount_num |-> 0,
      groups |-> << [num_mounts |-> 0, distribution |-> "CenterlineEven",
                     dist_super_factor_long |-> FALSE, gun_position |-> Zero],
                    [num_mounts |-> 0, distribution |-> "CenterlineEven",
                     dist_super_factor_long |-> FALSE, gun_position |-> Zero] >> ]

\* Four 6 inch guns in turrets.
MainBattery ==
    [ diam            |-> F(6),         \* Battery.diam
      gun_wgt         |-> F(20),        \* Battery::gun_wgt()
      mount_wgt       |-> F(30),        \* Battery::mount_wgt()
      armor_wgt       |-> F(10),        \* Battery::armor_wgt(hull)
      mag_wgt         |-> F(15),        \* Battery::mag_wgt()
      broadside_wgt   |-> F(400),       \* Battery::broadside_wgt(), lbs
      wgt_adj         |-> F(1),         \* MountType::wgt_adj()
      super           |-> F(1),         \* Battery::super_(hull)
      concentration   |-> Lit(5, 10),   \* Battery::concentration(wgt_broad)
      broad_and_below |-> FALSE,        \* Battery::broad_and_below()
      mount_num       |-> 2,            \* Battery.mount_num
      groups |-> <<
        [ num_mounts             |-> 1,              \* SubBattery::num_mounts()
          distribution           |-> "CenterlineFD", \* SubBattery.distribution
          dist_super_factor_long |-> FALSE,  \* GunDistributionType::super_factor_long()
          gun_position           |-> Lit(25, 100) ], \* g1_gun_position(fd_len, ad_len)
        [ num_mounts |-> 1, distribution |-> "CenterlineAD",
          dist_super_factor_long |-> FALSE,
          gun_position |-> Lit(75, 100) ] >> ]       \* g2_gun_position(fd_len, ad_len)

\* Twelve heavy guns on the broadside below deck: more than the hull bears.
HeavyBattery ==
    [ diam |-> F(12), gun_wgt |-> F(120), mount_wgt |-> F(90),
      armor_wgt |-> F(400), mag_wgt |-> F(80), broadside_wgt |-> F(4400),
      wgt_adj |-> Lit(12, 10), super |-> Lit(11, 10), concentration |-> Lit(8, 10),
      broad_and_below |-> TRUE, mount_num |-> 4,
      groups |-> << [num_mounts |-> 4, distribution |-> "SidesEven",
                     dist_super_factor_long |-> TRUE, gun_position |-> Lit(5, 10)],
                    [num_mounts |-> 0, distribution |-> "SidesEven",
                     dist_super_factor_long |-> TRUE, gun_position |-> Lit(5, 10)] >> ]

\* Light guns on the broadside below deck.
LightBattery ==
    [ diam |-> F(3), gun_wgt |-> F(4), mount_wgt |-> F(3), armor_wgt |-> Zero,
      mag_wgt |-> F(3), broadside_wgt |-> F(60), wgt_adj |-> F(1),
      super |-> F(1), concentration |-> Lit(1, 10), broad_and_below |-> TRUE,
      mount_num |-> 4,
      groups |-> << [num_mounts |-> 2, distribution |-> "SidesFD",
                     dist_super_factor_long |-> FALSE, gun_position |-> Lit(3, 10)],
                    [num_mounts |-> 2, distribution |-> "SidesFD",
                     dist_super_factor_long |-> FALSE, gun_position |-> Lit(4, 10)] >> ]

\* The main battery in open barbettes: the same guns and shells under a
\* lighter mount adjustment.
BarbetteBattery == [ MainBattery EXCEPT !.wgt_adj = Lit(6, 10) ]

BatteryKinds == {NoBattery, MainBattery, HeavyBattery, LightBattery}

\* A torpedo mount, as the values Torpedoes' accessors give.
NoTorps ==
    [ num |-> 0, kind |-> "FixedTubes", wgt |-> Zero, wgt_weaps |-> Zero,
      deck_space |-> Zero, hull_space |-> Zero ]
DeckTorps ==
    [ num        |-> 3,              \* Torpedoes.num
      kind       |-> "DeckSideTubes", \* Torpedoes.mount_kind
      wgt        |-> F(5),           \* Torpedoes::wgt()
      wgt_weaps  |-> F(3),           \* Torpedoes::wgt_weaps()
      deck_space |-> F(200),         \* Torpedoes::deck_space(b)
      hull_space |-> Zero ]          \* Torpedoes::hull_space()
HullTorps ==
    [ num |-> 3, kind |-> "BowTubes", wgt |-> F(5), wgt_weaps |-> F(3),
      deck_space |-> Zero, hull_space |-> F(1500) ]

TorpKinds == {NoTorps, DeckTorps, HullTorps}

\* TorpedoMountType: the deck-mounted and the hull-mounted variants.
DeckMountKinds == {"FixedTubes", "DeckSideTubes", "CenterTubes", "DeckReloads"}
HullMountKinds ==
    {"BowTubes", "SternTubes", "BowAndSternTubes", "SubmergedSideTubes",
     "SubmergedReloads"}
MountKinds == DeckMountKinds \cup HullMountKinds

\* The deck area and the hull volume one torpedo takes in each variant: a
\* deck-mounted variant takes deck space and no hull space, a hull-mounted
\* variant the reverse.
MountDeckUnit(kind) ==
    CASE kind = "FixedTubes"    -> F(3)
      [] kind = "DeckSideTubes" -> F(6)
      [] kind = "CenterTubes"   -> F(67)
      [] kind = "DeckReloads"   -> F(6)
      [] OTHER                  -> Zero
MountHullUnit(kind) ==
    CASE kind = "SubmergedReloads" -> F(80)
      [] kind \in HullMountKinds   -> F(500)
      [] OTHER                     -> Zero

\* A mount of num torpedoes of the given variant, as the values Torpedoes'
\* accessors give for it: no torpedoes take no weight and no space.
Mount(kind, num) ==
    [ num        |-> num,
      kind       |-> kind,
      wgt        |-> Lit(5 * num, 3),
      wgt_weaps  |-> F(num),
      deck_space |-> FMul(F(num), MountDeckUnit(kind)),
      hull_space |-> FMul(F(num), MountHullUnit(kind)) ]

\* The armour scheme, as the values Armor's accessors give.
BaseArmor ==
    [ main_wgt     |-> F(40),   \* armor.main.wgt(lwl, cwp, b)
      end_wgt      |-> F(10),   \* armor.end.wgt(lwl, cwp, b)
      upper_wgt    |-> F(10),   \* armor.upper.wgt(lwl, cwp, b)
      main_wgt_d   |-> F(45),   \* armor.main.wgt(d, cwp, b), as stability() calls it
      end_wgt_d    |-> F(12),   \* armor.end.wgt(d, cwp, b)
      upper_wgt_d  |-> F(12),   \* armor.upper.wgt(d, cwp, b)
      bulkhead_wgt |-> Zero,    \* armor.bulkhead.wgt(lwl, cwp, b)
      bulge_wgt    |-> Zero,    \* armor.bulge.wgt(..)
      ct_fwd_wgt   |-> F(5),    \* armor.ct_fwd.wgt(d)
      ct_aft_wgt   |-> Zero,    \* armor.ct_aft.wgt(d)
      deck_coef    |-> Lit(5, 1000), \* deck plating, tons per square foot
      bh_kind      |-> "Additional", \* armor.bh_kind
      bh_beam      |-> F(25) ]  \* armor.bh_beam

\* Thicker belts: the section weights grow.
BeltedArmor ==
    [ BaseArmor EXCEPT !.main_wgt = F(600), !.main_wgt_d = F(620),
                       !.end_wgt = F(60), !.end_wgt_d = F(65) ]
CitadelArmor ==
    [ BaseArmor EXCEPT !.main_wgt = F(1200), !.main_wgt_d = F(1250),
                       !.end_wgt = F(100), !.end_wgt_d = F(110),
                       !.upper_wgt = F(80), !.upper_wgt_d = F(85) ]

ArmorKinds == {BaseArmor, BeltedArmor, CitadelArmor}

\* The machinery, as the values Engine's fields and accessors give.
BaseEngine ==
    [ vmax       |-> F(20),     \* Engine.vmax
      d_engine   |-> F(300),    \* Engine::d_engine(..)
      hp_max     |-> F(5000),   \* Engine::hp_max(..)
      bunker     |-> F(100),    \* Engine::bunker(..)
      bunker_max |-> F(180),    \* Engine::bunker_max(..)
      rf_max     |-> F(30),     \* Engine::rf_max(ws)
      rw_max     |-> F(40),     \* Engine::rw_max(d, lwl, cs)
      shafts     |-> 2 ]        \* Engine::shafts()

\* No machinery at all, and a destroyer's plant.
NoEngine ==
    [ vmax |-> Zero, d_engine |-> Zero, hp_max |-> Zero, bunker |-> Zero,
      bunker_max |-> Zero, rf_max |-> Zero, rw_max |-> Zero, shafts |-> 0 ]
BigEngine ==
    [ vmax |-> F(30), d_engine |-> F(450), hp_max |-> F(20000),
      bunker |-> F(200), bunker_max |-> F(360), rf_max |-> F(30),
      rw_max |-> F(20), shafts |-> 4 ]

EngineKinds == {BaseEngine, NoEngine, BigEngine}

\* Mines and ASW gear, as the values their wgt() gives.
BaseMines == [ num |-> 0, wgt |-> Zero ]
BaseASW == << [ wgt |-> F(2) ], [ wgt |-> Zero ] >>

\* MiscWgts: whole tons (u32).
BaseWgts == [ vital |-> 5, hull |-> 5, on |-> 5, above |-> 5, void |-> 0 ]

----------------------------------------------------------------------------
(* Ship: the metrics of impl Ship *)

\* The sum of the first n elements of a sequence of f64 on top of acc, as
\* each `for` loop accumulates it.
RECURSIVE SumFrom(_, _, _)
SumFrom(seq, acc, n) ==
    IF n = 0 THEN acc ELSE FAdd(SumFrom(seq, acc, n - 1), seq[n])
SumSeq(seq) == SumFrom(seq, Zero, Len(seq))

\* Ship::year_adj(year)
year_adj_lt(y) ==
    IF y < 1890 THEN FSub(F(1), FDiv(F(1890 - y), Lit(66666664, 1000000)))
    ELSE IF y < 1950 THEN F(1)
    ELSE Zero
year_adj(y) ==
    IF y <= 1890 THEN FSub(F(1), FDiv(F(1890 - y), Lit(66666664, 1000000)))
    ELSE IF y <= 1950 THEN F(1)
    ELSE Zero

\* Ship::wgt_bunker()
wgt_bunker == engine.bunker

\* Ship::wgt_mag()
wgt_mag == SumSeq([i \in 1..Len(batteries) |-> batteries[i].mag_wgt])

\* Ship::wgt_load()
wgt_load ==
    Let(wgt_mag, LAMBDA mag :
        FAdd(FAdd(FMul(hull.d, Lit(2, 100)), wgt_bunker), mag))

\* Ship::d_lite()
d_lite == Let(wgt_load, LAMBDA load : FSub(hull.d, load))

\* Ship::d_std()
d_std == FSub(hull.d, wgt_bunker)

\* Ship::d_max()
d_max_of_bunker_max == FAdd(hull.d, FMul(Lit(8, 10), engine.bunker_max))
d_max == FAdd(hull.d, FMul(Lit(8, 10), wgt_bunker))

\* Ship::crew_max()
crew_max_rounded ==
    AsU32(FAdd(FMul(FPow(hull.d, 3, 4), Lit(65, 100)), Lit(1, 2)))
crew_max == AsU32(FMul(FPow(hull.d, 3, 4), Lit(65, 100)))

\* Ship::crew_min(): the u32 crew_max() as f64, times 0.7692, as u32.
crew_min == (crew_max * 7692) \div 10000

\* Ship::deck_space()
deck_space_of_hull_mounts ==
    FDiv(SumSeq([i \in 1..Len(torps) |-> torps[i].hull_space]), hull.wp)
deck_space ==
    FDiv(SumSeq([i \in 1..Len(torps) |-> torps[i].deck_space]), hull.wp)

\* Ship::hull_space()
hull_space ==
    FDiv(SumSeq([i \in 1..Len(torps) |-> torps[i].hull_space]),
         FMul(hull.d, F(FT3_PER_TON_SEA)))

\* Ship::wgt_borne()
wgt_borne ==
    FMul(SumSeq([i \in 1..Len(batteries) |->
                    FMul(batteries[i].gun_wgt, batteries[i].wgt_adj)]), F(2))

\* Ship::wgt_weaps()
wgt_weaps ==
    FAdd(SumFrom([i \in 1..Len(asw) |-> asw[i].wgt],
                 SumSeq([i \in 1..Len(torps) |-> torps[i].wgt]), Len(asw)),
         mines.wgt)

\* Ship::wgt_guns()
wgt_guns == SumSeq([i \in 1..Len(batteries) |-> batteries[i].gun_wgt])

\* Ship::wgt_gun_mounts()
wgt_gun_mounts == SumSeq([i \in 1..Len(batteries) |-> batteries[i].mount_wgt])

\* Ship::wgt_gun_armor()
wgt_gun_armor == SumSeq([i \in 1..Len(batteries) |-> batteries[i].armor_wgt])

\* Ship::wgt_broad()
wgt_broad == SumSeq([i \in 1..Len(batteries) |-> batteries[i].broadside_wgt])

\* MiscWgts::wgt(): the total of the allowances (u32).
MiscWgt == wgts.vital + wgts.hull + wgts.on + wgts.above + wgts.void

\* armor.deck.wgt(hull, wgt_mag, wgt_engine): deck plating over the
\* waterplane and over the magazine and machinery spaces.
DeckWgt(h, mag, eng) ==
    FMul(armor.deck_coef, FAdd(h.wp, FMul(F(4), FAdd(mag, eng))))

\* armor.wgt(hull, wgt_mag, wgt_engine): every section of the scheme.
ArmorWgt(h, mag, eng) ==
    FAdd(FAdd(FAdd(FAdd(FAdd(FAdd(FAdd(armor.main_wgt, armor.end_wgt),
        armor.upper_wgt), armor.bulkhead_wgt), armor.bulge_wgt),
        armor.ct_fwd_wgt), armor.ct_aft_wgt), DeckWgt(h, mag, eng))

\* armor.deck.wgt(hull, wgt_mag, 0.0), as stability(), report() and
\* internals() call it: the engine weight argument is pinned to 0.0.
deck_wgt_of_machinery ==
    Let(wgt_mag, LAMBDA mag : DeckWgt(hull, mag, engine.d_engine))
deck_wgt == Let(wgt_mag, LAMBDA mag : DeckWgt(hull, mag, Zero))

\* Ship::wgt_armor(): the engine weight argument is pinned to 0.0.
wgt_armor ==
    Let2(wgt_mag, wgt_gun_armor, LAMBDA mag, gun_armor :
         FAdd(ArmorWgt(hull, mag, Zero), gun_armor))

\* Ship::d_factor()
d_factor ==
    Let2(wgt_borne, wgt_armor, LAMBDA borne, arm :
         FMin(FDiv(hull.d,
                   FAdd(FAdd(FAdd(engine.d_engine, FMul(F(8), borne)), arm),
                        F(MiscWgt))),
              F(10)))

\* Ship::wgt_engine(): the exponent p is 1 - d/5000, 0.88 or 0; powf takes
\* it to three decimals.
wgt_engine ==
    Let(d_factor, LAMBDA df :
        LET p == IF FLt(hull.d, F(5000)) /\ FGe(hull.d, F(600)) /\ FLt(df, F(1))
                 THEN FSub(F(1), FDiv(hull.d, F(5000)))
                 ELSE IF FLt(hull.d, F(600)) /\ FLt(df, F(1))
                 THEN Lit(88, 100)
                 ELSE Zero
        IN  FMul(FDiv(engine.d_engine, F(2)),
                 FPow(df, AsU32(FMul(p, F(Ten3))), Ten3)))

\* Ship::wgt_hull()
wgt_hull_less_load ==
    Let2(wgt_armor, wgt_engine, LAMBDA arm, eng :
         FSub(FSub(FSub(FSub(FSub(FSub(hull.d, wgt_guns), wgt_gun_mounts),
             wgt_weaps), arm), eng), F(MiscWgt)))
wgt_hull ==
    Let3(wgt_armor, wgt_engine, wgt_load, LAMBDA arm, eng, load :
         FSub(FSub(FSub(FSub(FSub(FSub(FSub(hull.d, wgt_guns), wgt_gun_mounts),
             wgt_weaps), arm), eng), load), F(MiscWgt)))

\* Ship::wgt_hull_plus()
wgt_hull_plus ==
    Let(wgt_hull, LAMBDA h :
        FSub(FAdd(FAdd(h, wgt_guns), wgt_gun_mounts), wgt_borne))

\* The bulkhead weight wgt_struct() and str_long() add for a Strengthened
\* bulkhead.
StrengthenedBulkheadWgt ==
    IF armor.bh_kind = "Strengthened" THEN armor.bulkhead_wgt ELSE Zero

\* Ship::cap_calc_broadside()
cap_calc_broadside == \A i \in 1..Len(batteries) : batteries[i].broad_and_below

\* Ship::wgt_struct()
wgt_struct ==
    Let(wgt_hull_plus, LAMBDA hull_plus :
        FDiv(FMul(FAdd(hull_plus, StrengthenedBulkheadWgt), F(POUND2TON)),
             FAdd(FAdd(hull.ws,
                       FMul(FMul(F(2), hull.lwl),
                            hull.free_cap[cap_calc_broadside])),
                  hull.wp)))

\* Ship::gun_wtf()
gun_wtf ==
    SumSeq([i \in 1..Len(batteries) |->
        IF batteries[i].diam = Zero THEN Zero
        ELSE FMul(FMul(FAdd(FAdd(batteries[i].gun_wgt, batteries[i].mount_wgt),
                            batteries[i].armor_wgt),
                       batteries[i].super),
                  batteries[i].wgt_adj)])

\* Ship::gun_super_factor()
gun_super_factor ==
    FDiv(gun_wtf, FAdd(FAdd(wgt_gun_armor, wgt_guns), wgt_gun_mounts))

\* Ship::gun_concentration()
gun_concentration ==
    SumSeq([i \in 1..Len(batteries) |-> batteries[i].concentration])

\* Ship::room()
room ==
    Let3(wgt_mag, wgt_engine, hull_space, LAMBDA mag, eng, space :
         FDiv(FDiv(FAdd(FAdd(FAdd(FAdd(FAdd(mag, FMul(hull.d, Lit(2, 100))),
                                       FMul(wgt_borne, Lit(64, 10))),
                                  FMul(eng, F(3))),
                             F(wgts.vital)),
                        F(wgts.hull)),
                   FMul(hull.d, Lit(94, 100))),
              FSub(F(1), space)))

\* Ship::hull_room()
hull_room ==
    Let(room, LAMBDA rm :
        FMul(rm, IF FGt(armor.bulkhead_wgt, Lit(1, 10))
                 THEN FDiv(hull.b, armor.bh_beam)
                 ELSE F(1)))

\* Ship::deck_room()
deck_room ==
    Let2(deck_space, crew_min, LAMBDA space, crew :
         FMul(FDiv(FMul(FDiv(FDiv(hull.wp, F(FT3_PER_TON_SEA)), F(15)),
                        FSub(F(1), space)),
                   F(crew)),
              hull.freeboard_dist))

\* Ship::super_factor_long()
super_factor_long ==
    Let2(hull_room, gun_super_factor, LAMBDA hroom, gsf :
         LET main == batteries[1]
             g0   == main.groups[1]
             g1   == main.groups[2]
             even(g) == g.distribution = "CenterlineEven"
                            \/ g.distribution = "SidesEven"
             a == FMul(hroom,
                       IF /\ even(g0) \/ even(g1)
                          /\ main.mount_num = 3 \/ main.mount_num = 4
                       THEN gsf
                       ELSE F(1))
         IN  FMul(a,
                  IF \/ /\ g0.num_mounts > 0 /\ g1.num_mounts = 0
                        /\ g0.dist_super_factor_long
                     \/ /\ g1.num_mounts > 0 /\ g0.num_mounts = 0
                        /\ g1.dist_super_factor_long
                     \/ /\ g0.num_mounts > 0 /\ g1.num_mounts > 0
                        /\ FLt(FAbs(FSub(g0.gun_position, g1.gun_position)),
                               Lit(2, 10))
                  THEN FMul(Lit(8, 10), gsf)
                  ELSE FSub(FMul(F(2), gsf), F(1))))

\* Ship::stability()
stability ==
    Let4(gun_super_factor, wgt_hull_plus, deck_room, wgt_engine,
         LAMBDA gsf, hull_plus, droom, eng :
         LET a == FAdd(FAdd(FAdd(FAdd(FAdd(FAdd(FAdd(FAdd(FAdd(
                      FMul(FAdd(armor.ct_fwd_wgt, armor.ct_aft_wgt), F(5)),
                      FMul(FMul(FAdd(wgt_borne, wgt_gun_armor),
                                FSub(FMul(F(2), gsf), F(1))), F(4))),
                      FMul(F(wgts.hull), F(2))),
                      FMul(F(wgts.on), F(3))),
                      FMul(F(wgts.above), F(4))),
                      FMul(armor.upper_wgt_d, F(2))),
                      armor.main_wgt_d),
                      armor.end_wgt_d),
                      DeckWgt(hull, wgt_mag, Zero)),
                      FDiv(FMul(FMul(FSub(FAdd(FAdd(hull_plus, wgt_guns),
                                               wgt_gun_mounts), wgt_borne),
                                     Lit(15, 10)),
                                hull.freeboard),
                           hull.t))
         IN  Let(FAdd(a, IF FLt(droom, F(1))
                         THEN FMul(FAdd(FAdd(eng, F(wgts.vital)), F(wgts.void)),
                                   FSub(F(1), FPow(droom, 2, 1)))
                         ELSE Zero),
                 LAMBDA b :
                 IF FGt(b, Zero)
                 THEN FMul(FSqrt(FMul(FDiv(FMul(hull.d, FDiv(hull.bb, hull.t)), b),
                                      Lit(5, 10))),
                           FPow(FDiv(Lit(876755, 100000), hull.len2beam), 1, 4))
                 ELSE b))

\* Ship::stability_adj()
StabilityAdj(stab, t) ==
    FMul(stab, FAdd(FDiv(FSub(F(50), F(t)), F(150)), F(1)))
stability_adj == Let(stability, LAMBDA stab : StabilityAdj(stab, trim))

\* Ship::metacenter()
metacenter_of_stability ==
    Let(stability_adj, LAMBDA stab :
        FDiv(FDiv(FMul(FPow(hull.b, 3, 2), stab), Lit(5, 10)), F(200)))
metacenter ==
    Let(stability_adj, LAMBDA stab :
        FDiv(FDiv(FMul(FPow(hull.b, 3, 2), FSub(stab, Lit(5, 10))), Lit(5, 10)),
             F(200)))

\* Ship::capsize_warn()
capsize_warn_strict == Let(metacenter, LAMBDA gm : FLt(gm, Zero))
capsize_warn == Let(metacenter, LAMBDA gm : FLe(gm, Zero))

\* Ship::str_cross()
str_cross ==
    Let2(wgt_struct, gun_super_factor, LAMBDA struct, gsf :
         LET concentration == IF FGt(wgt_broad, Zero)
                              THEN FAdd(F(1), gun_concentration)
                              ELSE F(1)
             guns == FAdd(FAdd(FAdd(FAdd(wgt_broad, wgt_borne), wgt_gun_armor),
                               armor.ct_fwd_wgt), armor.ct_aft_wgt)
             load == FAdd(hull.d,
                          FAdd(FMul(guns, FMul(concentration, gsf)),
                               FDiv(FMax(engine.hp_max, Zero), F(100))))
             s == FMul(FDiv(FDiv(struct,
                                 FSqrt(FMul(hull.bb,
                                            FAdd(hull.t, hull.freeboard_dist)))),
                            FDiv(load, hull.d)),
                       Lit(6, 10))
         IN  IF year < 1900
             THEN FMul(s, FSub(F(1), FDiv(FSub(F(1900), F(year)), F(100))))
             ELSE s)

\* The u32 value 1 - (1900 - year) / 100 of str_long(), as 16-bit halves
\* <<high, low>>: the subtraction wraps modulo 2^32 when the quotient
\* exceeds 1.
U32Half == 256 * 256
str_long_year_factor ==
    LET q == (1900 - year) \div 100
    IN  IF year < 1900
        THEN (IF q <= 1 THEN <<0, 1 - q>> ELSE <<U32Half - 1, U32Half + 1 - q>>)
        ELSE <<0, 1>>

\* A build with overflow checks aborts str_long() where the subtraction
\* wraps.
str_long_panics ==
    overflow_checks /\ year < 1900 /\ (1900 - year) \div 100 > 1

\* A u32 given as halves, `as f64`.
U32AsF64(h) == FAdd(FMul(F(h[1]), F(U32Half)), F(h[2]))

\* Ship::str_long() before its year factor: the value of a ship of 1900 or
\* later.
str_long_undated ==
    Let2(wgt_hull_plus, super_factor_long, LAMBDA hull_plus, sfl :
         FMul(FDiv(FAdd(hull_plus, StrengthenedBulkheadWgt),
                   FMul(FPow(FDiv(hull.lwl,
                                  FAdd(hull.t,
                                       hull.free_cap[cap_calc_broadside])),
                             2, 1),
                        FAdd(FAdd(hull.d, FMul(armor.end_wgt, F(3))),
                             FMul(FMul(FAdd(wgt_borne, wgt_gun_armor), sfl),
                                  F(2))))),
              F(850)))

\* Ship::str_long()
str_long ==
    Let(str_long_undated, LAMBDA s : FMul(s, U32AsF64(str_long_year_factor)))

\* Ship::str_comp(), as a function of the two strengths.
StrCompSwapped(cross, long) ==
    IF FGt(cross, long)
    THEN FMul(long, FPow(FDiv(cross, long), 1, 10))
    ELSE FMul(cross, FPow(FDiv(long, cross), 1, 4))
StrComp(cross, long) ==
    IF FGt(cross, long)
    THEN FMul(long, FPow(FDiv(cross, long), 1, 4))
    ELSE FMul(cross, FPow(FDiv(long, cross), 1, 10))

\* Ship::str_comp()
str_comp == Let2(str_cross, str_long, StrComp)

\* Ship::flotation(), as a function of stability_adj(), str_comp(), room()
\* and year_adj(year).
FlotationUnclamped(stab, comp, rm, adj) ==
    LET a == IF cap_calc_broadside THEN hull.free_cap[cap_calc_broadside]
             ELSE hull.freeboard_dist
        b == FDiv(FAdd(FDiv(FMul(a, hull.wp), F(FT3_PER_TON_SEA)), hull.d), F(2))
        c == FMul(b, IF FGt(stab, F(1)) THEN FPow(stab, 1, 2)
                     ELSE FPow(stab, 4, 1))
        d == FMul(c, IF FLt(comp, F(1)) THEN comp ELSE F(1))
        e == FDiv(d, IF FGt(rm, F(1)) THEN FPow(rm, 2, 1) ELSE rm)
    IN  FMul(e, adj)
FlotationNoStability(stab, comp, rm, adj) ==
    LET a == IF cap_calc_broadside THEN hull.free_cap[cap_calc_broadside]
             ELSE hull.freeboard_dist
        b == FDiv(FAdd(FDiv(FMul(a, hull.wp), F(FT3_PER_TON_SEA)), hull.d), F(2))
        d == FMul(b, IF FLt(comp, F(1)) THEN comp ELSE F(1))
        e == FDiv(d, IF FGt(rm, F(1)) THEN FPow(rm, 2, 1) ELSE rm)
    IN  FMax(FMul(e, adj), Zero)
Flotation(stab, comp, rm, adj) ==
    LET a == IF cap_calc_broadside THEN hull.free_cap[cap_calc_broadside]
             ELSE hull.freeboard_dist
        b == FDiv(FAdd(FDiv(FMul(a, hull.wp), F(FT3_PER_TON_SEA)), hull.d), F(2))
        c == FMul(b, IF FGt(stab, F(1)) THEN FPow(stab, 1, 2)
                     ELSE FPow(stab, 4, 1))
        d == FMul(c, IF FLt(comp, F(1)) THEN comp ELSE F(1))
        e == FDiv(d, IF FGt(rm, F(1)) THEN FPow(rm, 2, 1) ELSE rm)
    IN  FMax(FMul(e, adj), Zero)

\* Ship::flotation()
flotation_of_stability ==
    Let4(stability, str_comp, room, year_adj(year), Flotation)
flotation == Let4(stability_adj, str_comp, room, year_adj(year), Flotation)

\* Ship::damage_shell_size()
damage_shell_size ==
    IF FGt(batteries[1].diam, Zero) THEN batteries[1].diam ELSE F(6)

\* The divisor of damage_shell_num(): half the cube of the shell size, times
\* the year adjustment.
damage_shell_divisor ==
    FMul(FDiv(FPow(damage_shell_size, 3, 1), F(2)), year_adj(year))

\* Ship::damage_shell_num(), as a function of flotation()
DamageShellNum(flot) == FDiv(flot, damage_shell_divisor)

\* Ship::damage_shell_num()
damage_shell_num == Let(flotation, DamageShellNum)

\* Ship::tender_warn()
tender_warn == Let(stability_adj, LAMBDA stab : FLe(stab, Lit(995, 1000)))

\* Ship::hull_strained()
hull_strained ==
    Let(str_comp, LAMBDA comp :
        /\ FGe(comp, Lit(5, 10))
        /\ FLt(comp, Lit(885, 1000))
        /\ (FLt(engine.vmax, F(24)) \/ FGt(hull.d, F(4000))))

\* The escalation factor of cost_dollar() for design year y.
CostEscalation(y) ==
    IF FGt(FAdd(F(y), F(2)), F(1914))
    THEN FAdd(F(1), FDiv(FSub(FAdd(F(y), Lit(15, 10)), F(1914)), Lit(55, 10)))
    ELSE F(1)

\* Ship::cost_dollar(), as a function of wgt_load(), wgt_engine() and the
\* gun weight it prices.
CostDollar(load, eng, guns) ==
    FMul(FAdd(FAdd(FMul(FSub(hull.d, load), Lit(14, 100000)),
                   FMul(eng, Lit(56, 100000))),
              FMul(FMul(guns, F(8)), Lit(42, 100000))),
         CostEscalation(year))

\* Ship::cost_dollar()
cost_dollar_of_broadside == Let3(wgt_load, wgt_engine, wgt_broad, CostDollar)
cost_dollar == Let3(wgt_load, wgt_engine, wgt_borne, CostDollar)

\* Ship::cost_lb()
cost_lb == Let(cost_dollar, LAMBDA dollar : FDiv(dollar, F(4)))

\* The resistance factor of seaboat(): the share of the frictional in the
\* whole resistance, squared, where that share is below 0.55 and the ship
\* has speed; 0.3025 otherwise.  The share is computed before vmax is looked
\* at.
ResistanceFactorUnguarded(rf, rw, vmax) ==
    IF FLt(FDiv(rf, FAdd(rf, rw)), Lit(55, 100))
    THEN FPow(FDiv(rf, FAdd(rf, rw)), 2, 1)
    ELSE Lit(3025, 10000)
ResistanceFactor(rf, rw, vmax) ==
    IF FLt(FDiv(rf, FAdd(rf, rw)), Lit(55, 100)) /\ FGt(vmax, Zero)
    THEN FPow(FDiv(rf, FAdd(rf, rw)), 2, 1)
    ELSE Lit(3025, 10000)

\* The divisors of the divisions seaboat() evaluates for its resistance
\* factor: the share in the condition, which stands left of `&&` and so is
\* evaluated whatever vmax is, and the share again where the condition
\* holds.
ResistanceDivisors(rf, rw, vmax) ==
    <<FAdd(rf, rw)>> \o
    (IF FLt(FDiv(rf, FAdd(rf, rw)), Lit(55, 100)) /\ FGt(vmax, Zero)
     THEN <<FAdd(rf, rw)>> ELSE <<>>)

\* Ship::seaboat()
seaboat ==
    Let3(stability, wgt_hull_plus, super_factor_long, LAMBDA stab, hull_plus, sfl :
         LET fc == hull.free_cap[cap_calc_broadside]
             a == FMul(FMul(FSqrt(FDiv(fc, FMul(Lit(24, 10), FPow(hull.d, 1, 5)))),
                            FMul(FMul(FPow(FMul(FMul(stab, F(5)),
                                                FDiv(hull.bb, hull.lwl)), 1, 5),
                                      FSqrt(FMul(FDiv(fc, hull.lwl), F(20)))),
                                 FDiv(hull.d,
                                      FAdd(FAdd(FAdd(hull.d, FMul(armor.end_wgt, F(3))),
                                                FDiv(hull_plus, F(3))),
                                           FMul(FAdd(wgt_borne, wgt_gun_armor), sfl))))),
                       F(8))
             b == FMul(a, IF FLt(FDiv(hull.t, hull.bb), Lit(3, 10))
                          THEN FSqrt(FDiv(FDiv(hull.t, hull.bb), Lit(3, 10)))
                          ELSE F(1))
             c == FMul(b, ResistanceFactor(engine.rf_max, engine.rw_max, engine.vmax))
         IN  FMin(c, F(2)))

\* Ship::steadiness(), as a function of seaboat().
Steadiness(boat) == FMin(FMul(F(trim), boat), F(100))

\* Ship::steadiness()
steadiness == Let(seaboat, Steadiness)

\* Ship::seakeeping(), as a function of seaboat().
Seakeeping(boat) == FDiv(FMul(boat, FMin(Steadiness(boat), F(50))), F(50))

\* Ship::seakeeping()
seakeeping == Let(seaboat, Seakeeping)

\* Ship::is_steady(), Ship::is_unsteady()
is_steady == Let(steadiness, LAMBDA st : FGe(st, Lit(695, 10)))
is_unsteady == Let(steadiness, LAMBDA st : FLt(st, F(30)))

\* Ship::type_sea(), as a function of seakeeping().
TypeSeaNoError(v) ==
    CASE FLt(v, Lit(7, 10))      -> "BadSea"
      [] FLt(v, Lit(995, 1000))  -> "PoorSea"
      [] FGe(v, Lit(15, 10))     -> "FineSea"
      [] OTHER                   -> "GoodSea"
TypeSea(v) ==
    CASE FLt(v, Lit(7, 10))      -> "BadSea"
      [] FLt(v, Lit(995, 1000))  -> "PoorSea"
      [] FGe(v, Lit(15, 10))     -> "FineSea"
      [] FGe(v, Lit(12, 10))     -> "GoodSea"
      [] OTHER                   -> "Error"

\* Ship::type_sea()
type_sea == Let(seakeeping, TypeSea)

\* The advisory of each band.
SeaAdvisory(band) ==
    CASE band = "BadSea"  ->
           "Caution: Lacks seaworthiness - very limited seakeeping ability"
      [] band = "PoorSea" ->
           "Poor seaboat, wet and uncomfortable, reduced performance in heavy weather"
      [] band = "GoodSea" -> "Good seaboat, rides out heavy weather easily"
      [] band = "FineSea" ->
           IF FGt(wgt_guns, Zero)
           THEN "Excellent seaboat, comfortable, can fire her guns in the heaviest weather"
           ELSE "Excellent seaboat, comfortable, rides out heavy weather easily"
      [] band = "Error"   -> "Invalid SeaType"

\* Ship::seakeeping_desc(), as a function of steadiness() and type_sea().
SeakeepingDesc(st, band) ==
    (IF FGe(st, Lit(695, 10))
     THEN <<"Ship has slow easy roll, a good steady, gun platform">>
     ELSE IF FLt(st, F(30))
     THEN <<"Ship has quick, lively roll, not a steady gun platform">>
     ELSE <<>>)
    \o <<SeaAdvisory(band)>>

\* Ship::seakeeping_desc()
seakeeping_desc ==
    Let(seaboat, LAMBDA boat :
        SeakeepingDesc(Steadiness(boat), TypeSea(Seakeeping(boat))))

----------------------------------------------------------------------------
(* Ship::report() *)

\* The conditions of the five DESIGN FAILURE lines.
CbFailure == FLe(hull.cb, Zero) \/ FGt(hull.cb, F(1))
GunFailureQuarterOfD == FGt(wgt_broad, FDiv(hull.d, F(4)))
GunFailure == FLt(hull.d, FDiv(wgt_broad, F(4)))
ArmourFailureInverted == Let(wgt_armor, LAMBDA arm : FLt(arm, hull.d))
ArmourFailure == Let(wgt_armor, LAMBDA arm : FGt(arm, hull.d))
LoadFailure == Let(str_comp, LAMBDA comp : FLt(comp, Lit(5, 10)))
CapsizeFailure == capsize_warn

CbLine      == "DESIGN FAILURE: Displacement impossible with given dimensions"
GunLine     == "DESIGN FAILURE: Gun weight too much for hull"
ArmourLine  == "DESIGN FAILURE: Armour weight too much for hull"
LoadLine    == "DESIGN FAILURE: Overall load weight too much for hull"
CapsizeLine == "DESIGN FAILURE: Ship will capsize"

Opt(cond, line) == IF cond THEN <<line>> ELSE <<>>

\* The warnings block: five independent `if`s, in this order.
Warnings ==
    Opt(CbFailure, CbLine) \o Opt(GunFailure, GunLine) \o
    Opt(ArmourFailure, ArmourLine) \o Opt(LoadFailure, LoadLine) \o
    Opt(CapsizeFailure, CapsizeLine)

\* The headings of the metric sections, in the order report() emits them.
Sections ==
    << "Displacement:",
       "Dimensions: Length (overall / waterline) x beam x draught (normal/deep)",
       "Armament:",
       "Armour:",
       "Machinery:",
       "Complement:",
       "Cost:",
       "Distribution of weights at normal displacement:",
       "Overall survivability and seakeeping ability:",
       "Hull form characteristics:",
       "Ship space, strength and comments:",
       "Hull strength (Relative):" >>

\* What the machinery section holds for a ship with speed: fuel and boiler,
\* drive with horsepower and power per shaft, range, bunker.
MachineryLines ==
    << "    fuel, boiler", "    drive, shafts, horsepower = kts",
       "    Range", "    Bunker at max displacement" >>

\* The lines of the report that the aggregator's own conditions decide:
\* the header, the warnings, each section heading and the cautions.
ReportLines ==
    <<"laid down">> \o Warnings \o
    SubSeq(Sections, 1, 5) \o
    (IF ~FEq(engine.vmax, Zero) THEN MachineryLines
     ELSE <<"    Immobile floating battery">>) \o
    SubSeq(Sections, 6, 12) \o
    Opt(tender_warn /\ ~capsize_warn,
        "Caution: Poor stability - excessive risk of capsizing") \o
    Opt(hull_strained, "Caution: Hull subject to strain in open-sea")

\* What the last report() gave: whether it returned, its lines, and the
\* figures it prints for the displacement, the broadside and the armour.
NoReport ==
    [status |-> "none", lines |-> <<>>, d |-> Zero, wgt_broad |-> Zero,
     wgt_armor |-> Zero]

\* What the last call of a metric returned: an f64 in f, a u32 in n, a bool
\* in b, an enum variant in s or a Vec<String> in lines; the f64 values it
\* read in args; of what it computed on the way, an intermediate f64 in
\* aux and the divisors of its divisions in divs; and in on, the Ship record
\* the call was given.
NoCall ==
    [op |-> "none", f |-> Zero, n |-> 0, b |-> FALSE, s |-> "", lines |-> <<>>,
     args |-> <<>>, aux |-> Zero, divs |-> <<>>, on |-> <<>>]

\* The threads that hold a shared reference to the Ship.
NumThreads == 2
Threads == 1..NumThreads

\* A thread outside any call, with what its last call returned (f), of which
\* accessor (op) and on which Ship record (on).
Idle == [pc |-> "idle", op |-> "none", f |-> Zero, on |-> <<>>]

\* No file at the path.
NoFile == [exists |-> FALSE, records |-> <<>>]

\* report() evaluates str_comp() for the warnings before it emits any
\* section: where str_long() aborts, so does the report.
ReportResult ==
    IF str_long_panics THEN [NoReport EXCEPT !.status = "panic"]
    ELSE [status |-> "ok", lines |-> ReportLines, d |-> hull.d,
          wgt_broad |-> wgt_broad, wgt_armor |-> wgt_armor]

----------------------------------------------------------------------------
(* Initial state and operations *)

\* A designed ship, as loaded: the cruiser with one main battery, laid down
\* in year y at d tons.
InitShip(y, d) ==
    /\ year = y
    /\ trim = 50
    /\ hull = [BaseHull EXCEPT !.d = d]
    /\ armor = BaseArmor
    /\ engine = BaseEngine
    /\ batteries = <<MainBattery, NoBattery, NoBattery, NoBattery, NoBattery>>
    /\ torps = <<DeckTorps, NoTorps>>
    /\ mines = BaseMines
    /\ asw = BaseASW
    /\ wgts = BaseWgts
    /\ overflow_checks \in BOOLEAN
    /\ out = NoReport
    /\ ret = NoCall
    /\ threads = [t \in Threads |-> Idle]
    /\ file = NoFile

Init == InitShip(1920, F(1000))

\* Ships of every design year.
InitYear == \E y \in 0..MaxYear : InitShip(y, F(1000))

\* Ships of every displacement in whole tons.
InitCrew == \E n \in 0..MaxD : InitShip(1920, F(n))

\* ship.year = y
SetYear(y) ==
    /\ year' = y
    /\ UNCHANGED <<trim, hull, armor, engine, batteries, torps, mines, asw, wgts,
                   overflow_checks, out, ret, threads, file>>

\* ship.trim = t
SetTrim(t) ==
    /\ trim' = t
    /\ UNCHANGED <<year, hull, armor, engine, batteries, torps, mines, asw, wgts,
                   overflow_checks, out, ret, threads, file>>

\* ship.hull.set_d(d)
SetD(d) ==
    /\ hull' = [hull EXCEPT !.d = d]
    /\ UNCHANGED <<year, trim, armor, engine, batteries, torps, mines, asw, wgts,
                   overflow_checks, out, ret, threads, file>>

\* ship.hull = h
SetHull(h) ==
    /\ hull' = h
    /\ UNCHANGED <<year, trim, armor, engine, batteries, torps, mines, asw, wgts,
                   overflow_checks, out, ret, threads, file>>

\* ship.batteries[i] = b
SetBattery(i, b) ==
    /\ batteries' = [batteries EXCEPT ![i] = b]
    /\ UNCHANGED <<year, trim, hull, armor, engine, torps, mines, asw, wgts,
                   overflow_checks, out, ret, threads, file>>

\* ship.armor.<section> thickened or thinned: the section weights change.
SetArmor(a) ==
    /\ armor' = a
    /\ UNCHANGED <<year, trim, hull, engine, batteries, torps, mines, asw, wgts,
                   overflow_checks, out, ret, threads, file>>

\* ship.engine reconfigured.
SetEngine(e) ==
    /\ engine' = e
    /\ UNCHANGED <<year, trim, hull, armor, batteries, torps, mines, asw, wgts,
                   overflow_checks, out, ret, threads, file>>

\* ship.report()
Report ==
    /\ UNCHANGED <<year, trim, hull, armor, engine, batteries, torps, mines, asw,
                   wgts, overflow_checks, ret, threads, file>>
    /\ out' = ReportResult

\* Ship::year_adj(ship.year)
CallYearAdj ==
    /\ UNCHANGED <<year, trim, hull, armor, engine, batteries, torps, mines, asw,
                   wgts, overflow_checks, out, threads, file>>
    /\ ret' = [NoCall EXCEPT !.op = "year_adj", !.f = year_adj(year)]

\* ship.crew_max()
CallCrewMax ==
    /\ UNCHANGED <<year, trim, hull, armor, engine, batteries, torps, mines, asw,
                   wgts, overflow_checks, out, threads, file>>
    /\ ret' = [NoCall EXCEPT !.op = "crew_max", !.n = crew_max]

\* ship.crew_min()
CallCrewMin ==
    /\ UNCHANGED <<year, trim, hull, armor, engine, batteries, torps, mines, asw,
                   wgts, overflow_checks, out, threads, file>>
    /\ ret' = [NoCall EXCEPT !.op = "crew_min", !.n = crew_min]

\* ship.str_comp(): it aborts where str_long() does.
CallStrComp ==
    /\ UNCHANGED <<year, trim, hull, armor, engine, batteries, torps, mines, asw,
                   wgts, overflow_checks, out, threads, file>>
    /\ ret' = IF str_long_panics THEN [NoCall EXCEPT !.op = "panic"]
              ELSE [NoCall EXCEPT !.op = "str_comp", !.f = str_comp]

\* ship.str_long(), with the value it has before the year factor.
CallStrLong ==
    /\ UNCHANGED <<year, trim, hull, armor, engine, batteries, torps, mines, asw,
                   wgts, overflow_checks, out, threads, file>>
    /\ ret' = IF str_long_panics THEN [NoCall EXCEPT !.op = "panic", !.n = year]
              ELSE [NoCall EXCEPT !.op = "str_long", !.f = str_long,
                                  !.aux = str_long_undated, !.n = year]

\* The top-level weights of the report's weight distribution, added up:
\* hull, guns, gun mounts, weapons, armour, machinery, load and the
\* miscellaneous weights.
WgtTotal(w) == SumSeq(w)

\* ship.wgt_hull() and the seven weights it subtracts from hull.d().
CallWgtHull ==
    /\ UNCHANGED <<year, trim, hull, armor, engine, batteries, torps, mines, asw,
                   wgts, overflow_checks, out, threads, file>>
    /\ ret' = Let4(wgt_hull, wgt_armor, wgt_engine, wgt_load,
                   LAMBDA h, arm, eng, load :
                   [NoCall EXCEPT !.op = "wgt_hull", !.f = h, !.aux = hull.d,
                                  !.args = <<h, wgt_guns, wgt_gun_mounts,
                                             wgt_weaps, arm, eng, load,
                                             F(MiscWgt)>>])

\* ship.tender_warn() and ship.capsize_warn() of one ship, with its
\* stability_adj() and its beam.
CallTenderWarn ==
    /\ UNCHANGED <<year, trim, hull, armor, engine, batteries, torps, mines, asw,
                   wgts, overflow_checks, out, threads, file>>
    /\ ret' = [NoCall EXCEPT !.op = "tender_warn", !.b = tender_warn,
                             !.s = IF capsize_warn THEN "capsize" ELSE "",
                             !.f = stability_adj, !.aux = hull.b]

\* ship.damage_shell_num(), with its divisor and the flotation it divides;
\* it aborts where str_long() does.
CallDamageShellNum ==
    /\ UNCHANGED <<year, trim, hull, armor, engine, batteries, torps, mines, asw,
                   wgts, overflow_checks, out, threads, file>>
    /\ ret' = IF str_long_panics THEN [NoCall EXCEPT !.op = "panic"]
              ELSE Let(flotation, LAMBDA flot :
                       [NoCall EXCEPT !.op = "damage_shell_num",
                                      !.f = DamageShellNum(flot),
                                      !.aux = damage_shell_divisor,
                                      !.args = <<flot>>, !.n = year])

\* Does the ship carry no guns: no battery has gun, mount or mount armour
\* weight.
NoGuns ==
    \A i \in 1..Len(batteries) :
        /\ batteries[i].gun_wgt = Zero /\ batteries[i].mount_wgt = Zero
        /\ batteries[i].armor_wgt = Zero

\* ship.stability(), with the gun_super_factor() it is computed from and the
\* stability_adj() and metacenter() computed from it.
CallStability ==
    /\ UNCHANGED <<year, trim, hull, armor, engine, batteries, torps, mines, asw,
                   wgts, overflow_checks, out, threads, file>>
    /\ ret' = [NoCall EXCEPT !.op = "stability", !.f = stability,
                             !.aux = gun_super_factor, !.b = NoGuns,
                             !.args = <<stability_adj, metacenter>>,
                             !.divs = <<FAdd(FAdd(wgt_gun_armor, wgt_guns),
                                             wgt_gun_mounts)>>]

\* ship.flotation(): it aborts where str_long() does.
CallFlotation ==
    /\ UNCHANGED <<year, trim, hull, armor, engine, batteries, torps, mines, asw,
                   wgts, overflow_checks, out, threads, file>>
    /\ ret' = IF str_long_panics THEN [NoCall EXCEPT !.op = "panic"]
              ELSE [NoCall EXCEPT !.op = "flotation", !.f = flotation]

\* ship.torps[i] = t
SetTorps(i, t) ==
    /\ torps' = [torps EXCEPT ![i] = t]
    /\ UNCHANGED <<year, trim, hull, armor, engine, batteries, mines, asw, wgts,
                   overflow_checks, out, ret, threads, file>>

\* ship.deck_space()
CallDeckSpace ==
    /\ UNCHANGED <<year, trim, hull, armor, engine, batteries, torps, mines, asw,
                   wgts, overflow_checks, out, threads, file>>
    /\ ret' = [NoCall EXCEPT !.op = "deck_space", !.f = deck_space]

\* ship.hull_space()
CallHullSpace ==
    /\ UNCHANGED <<year, trim, hull, armor, engine, batteries, torps, mines, asw,
                   wgts, overflow_checks, out, threads, file>>
    /\ ret' = [NoCall EXCEPT !.op = "hull_space", !.f = hull_space]

\* ship.type_sea(), with the seakeeping() it classifies.
CallTypeSea ==
    /\ UNCHANGED <<year, trim, hull, armor, engine, batteries, torps, mines, asw,
                   wgts, overflow_checks, out, threads, file>>
    /\ ret' = Let(seakeeping, LAMBDA v :
                  [NoCall EXCEPT !.op = "type_sea", !.f = v, !.s = TypeSea(v)])

\* ship.seakeeping_desc(), with the seakeeping() it describes.
CallSeakeepingDesc ==
    /\ UNCHANGED <<year, trim, hull, armor, engine, batteries, torps, mines, asw,
                   wgts, overflow_checks, out, threads, file>>
    /\ ret' = Let(seaboat, LAMBDA boat :
                  [NoCall EXCEPT !.op = "seakeeping_desc", !.f = Seakeeping(boat),
                                 !.lines = SeakeepingDesc(Steadiness(boat),
                                                          TypeSea(Seakeeping(boat)))])

\* ship.seaboat(), with its resistance factor and that factor's divisors.
CallSeaboat ==
    /\ UNCHANGED <<year, trim, hull, armor, engine, batteries, torps, mines, asw,
                   wgts, overflow_checks, out, threads, file>>
    /\ ret' = [NoCall EXCEPT
                 !.op = "seaboat", !.f = seaboat,
                 !.aux = ResistanceFactor(engine.rf_max, engine.rw_max, engine.vmax),
                 !.divs = ResistanceDivisors(engine.rf_max, engine.rw_max,
                                             engine.vmax)]

\* ship.capsize_warn(), with the metacenter() it tests.
CallCapsizeWarn ==
    /\ UNCHANGED <<year, trim, hull, armor, engine, batteries, torps, mines, asw,
                   wgts, overflow_checks, out, threads, file>>
    /\ ret' = [NoCall EXCEPT !.op = "capsize_warn", !.f = metacenter,
                             !.b = capsize_warn]

\* ship.cost_dollar(), with the weights of the ship it prices: light ship,
\* machinery, broadside and borne guns.
CallCostDollar ==
    /\ UNCHANGED <<year, trim, hull, armor, engine, batteries, torps, mines, asw,
                   wgts, overflow_checks, out, threads, file>>
    /\ ret' = [NoCall EXCEPT !.op = "cost_dollar", !.f = cost_dollar, !.n = year,
                             !.args = <<d_lite, wgt_engine, wgt_broad, wgt_borne>>]

\* ship.cost_lb(), with the cost_dollar() of the same ship.
CallCostLb ==
    /\ UNCHANGED <<year, trim, hull, armor, engine, batteries, torps, mines, asw,
                   wgts, overflow_checks, out, threads, file>>
    /\ ret' = [NoCall EXCEPT !.op = "cost_lb", !.f = cost_lb, !.aux = cost_dollar]

\* The Ship record: the fields of struct Ship.
ThisShip ==
    [year |-> year, trim |-> trim, hull |-> hull, armor |-> armor,
     engine |-> engine, batteries |-> batteries, torps |-> torps,
     mines |-> mines, asw |-> asw, wgts |-> wgts]

\* ship.wgt_armor(), with the deck armour weight and the engine weight of the
\* same ship.
CallWgtArmor ==
    /\ UNCHANGED <<year, trim, hull, armor, engine, batteries, torps, mines, asw,
                   wgts, overflow_checks, out, threads, file>>
    /\ ret' = [NoCall EXCEPT !.op = "wgt_armor", !.f = wgt_armor,
                             !.aux = deck_wgt, !.args = <<wgt_engine>>,
                             !.on = ThisShip]

\* The accessors the threads call.
Accessors == {"cost_dollar", "wgt_armor", "report"}

\* What the accessor op returns on the Ship: every accessor takes &self and
\* computes from the fields of the record.
ReadMemo(op) ==
    IF \E u \in Threads : threads[u].pc = "idle" /\ threads[u].op = op
    THEN threads[CHOOSE u \in Threads :
                     threads[u].pc = "idle" /\ threads[u].op = op].f
    ELSE CASE op = "cost_dollar" -> cost_dollar
           [] op = "wgt_armor"   -> wgt_armor
           [] OTHER              -> ReportResult
Read(op) ==
    CASE op = "cost_dollar" -> cost_dollar
      [] op = "wgt_armor"   -> wgt_armor
      [] OTHER              -> ReportResult

\* No thread is inside a call: only then can the Ship be borrowed mutably,
\* which an assignment to one of its fields needs.
Unborrowed == \A t \in Threads : threads[t].pc = "idle"

\* Thread t calls the accessor op on the &Ship it shares: on is the record
\* the call borrows.
Enter(t, op) ==
    /\ threads[t].pc = "idle"
    /\ threads' = [threads EXCEPT ![t] = [pc |-> "in", op |-> op, f |-> Zero,
                                          on |-> ThisShip]]
    /\ UNCHANGED <<year, trim, hull, armor, engine, batteries, torps, mines, asw,
                   wgts, overflow_checks, out, ret, file>>

\* The call of thread t returns.
Leave(t) ==
    /\ threads[t].pc = "in"
    /\ threads' = [threads EXCEPT ![t] = [pc |-> "idle", op |-> threads[t].op,
                                          f |-> Read(threads[t].op),
                                          on |-> ThisShip]]
    /\ UNCHANGED <<year, trim, hull, armor, engine, batteries, torps, mines, asw,
                   wgts, overflow_checks, out, ret, file>>

----------------------------------------------------------------------------
(* The ship file: save() and load() *)

\* SHIP_FILE_VERSION
SHIP_FILE_VERSION == 1

\* The largest u8.
MaxU8 == 255

\* JSON null: what serde_json writes for an f64 that is not finite.
Null == [null |-> TRUE]

\* The fields of the components that are not f64: counts, flags, variants
\* and nested values.
NotF64 ==
    {"num", "kind", "groups", "broad_and_below", "mount_num", "free_cap",
     "bh_kind", "shafts"}

\* serde_json::to_string of a component: a keyed object, every finite f64 as
\* the number that reads back as the same f64, every other f64 as null.
EncF(x) == IF IsFinite(x) THEN x ELSE Null
EncRec(r) == [k \in DOMAIN r |-> IF k \in NotF64 THEN r[k] ELSE EncF(r[k])]
EncSeq(q) == [i \in 1..Len(q) |-> EncRec(q[i])]

\* serde_json::to_string(&self) of a Ship.
EncShip(sh) ==
    [year |-> sh.year, trim |-> sh.trim, hull |-> EncRec(sh.hull),
     armor |-> EncRec(sh.armor), engine |-> EncRec(sh.engine),
     batteries |-> EncSeq(sh.batteries), torps |-> EncSeq(sh.torps),
     mines |-> EncRec(sh.mines), asw |-> EncSeq(sh.asw), wgts |-> sh.wgts]

\* Does the object decode as the component: no f64 field holds null.
RecDecodes(j) == \A k \in DOMAIN j : k \in NotF64 \/ j[k] # Null
SeqDecodes(q) == \A i \in 1..Len(q) : RecDecodes(q[i])

\* Does serde_json::from_value::<Ship> accept the object: year is a u32
\* (every natural number of the model is one), trim a u8 and every component
\* decodes.
ShipDecodes(js) ==
    /\ js.year \in Nat /\ js.trim \in 0..MaxU8
    /\ RecDecodes(js.hull) /\ RecDecodes(js.armor) /\ RecDecodes(js.engine)
    /\ SeqDecodes(js.batteries) /\ SeqDecodes(js.torps)
    /\ RecDecodes(js.mines) /\ SeqDecodes(js.asw)

\* engine.set_shafts(shafts, &mut hull): the hull takes the shaft count.
SetShafts(e, h, shafts) == [h EXCEPT !.shafts = shafts]

\* The Ship load() returns for a Ship object that decodes: the decoded record
\* with the derived values set.
Loaded(js) ==
    [js EXCEPT !.hull = SetShafts(js.engine, js.hull, js.engine.shafts)]

\* The records of a ship file: a Version, a Ship, JSON of another shape, and
\* text that is no JSON (a line cut short).
VersionRecord(n) == [k |-> "version", version |-> n, ship |-> <<>>]
ShipRecord(js) == [k |-> "ship", version |-> 0, ship |-> js]
Junk == [k |-> "junk", version |-> 0, ship |-> <<>>]
Torn == [k |-> "torn", version |-> 0, ship |-> <<>>]

\* A file at the path, holding the records.
File(records) == [exists |-> TRUE, records |-> records]

\* What save() writes for the Ship sh: the version line, then the ship line.
Document(sh) == <<VersionRecord(SHIP_FILE_VERSION), ShipRecord(EncShip(sh))>>

\* Ship::default()
DefaultShip ==
    [year |-> 0, trim |-> 50, hull |-> BaseHull, armor |-> BaseArmor,
     engine |-> BaseEngine,
     batteries |-> [i \in 1..NumBatteries |-> NoBattery],
     torps |-> [i \in 1..NumTorps |-> NoTorps],
     mines |-> BaseMines, asw |-> BaseASW, wgts |-> BaseWgts]

\* What load() returns: Err(..) of a kind, with its message and the version
\* it names, or Ok(ship).
LoadErr(kind, msg, n) ==
    [NoCall EXCEPT !.op = "load", !.s = kind, !.lines = <<msg>>, !.n = n]
LoadOk(sh) == [NoCall EXCEPT !.op = "load", !.s = "ok", !.on = sh]

\* Ship::load(p) on the file f.
LoadResultShipFirst(f) ==
    IF ~f.exists THEN LoadErr("io error", "NotFound", 0)
    ELSE LET r == f.records
         IN  IF Len(r) < 2 THEN LoadErr("parse error", "", 0)
             ELSE IF r[2].k # "ship" \/ r[1].k # "version"
             THEN LoadErr("parse error", "serde_json", 0)
             ELSE IF ~ShipDecodes(r[2].ship)
             THEN LoadErr("parse error", "serde_json", 0)
             ELSE IF r[1].version # 1
             THEN LoadErr("version error",
                          "Cannot open ship files of this version: {}!",
                          r[1].version)
             ELSE LoadOk(Loaded(r[2].ship))
LoadResult(f) ==
    IF ~f.exists THEN LoadErr("io error", "NotFound", 0)
    ELSE LET r == f.records
         IN  IF Len(r) < 1 THEN LoadErr("parse error", "", 0)
             ELSE IF r[1].k # "version"
             THEN LoadErr("parse error", "serde_json", 0)
             ELSE IF r[1].version # 1
             THEN LoadErr("version error",
                          "Cannot open ship files of this version: {}!",
                          r[1].version)
             ELSE IF Len(r) < 2 THEN LoadErr("parse error", "", 0)
             ELSE IF r[2].k # "ship"
             THEN LoadErr("parse error", "serde_json", 0)
             ELSE IF ~ShipDecodes(r[2].ship)
             THEN LoadErr("parse error", "serde_json", 0)
             ELSE LoadOk(Loaded(r[2].ship))

\* Ship::load(p): the caller's Ship is not an argument.
Load ==
    /\ UNCHANGED <<year, trim, hull, armor, engine, batteries, torps, mines, asw,
                   wgts, overflow_checks, out, threads, file>>
    /\ ret' = LoadResult(file)

\* ship.save(p) with every write going through: the file is opened without
\* create(true), so there must be one; it is emptied, then the two lines are
\* appended.
Save ==
    /\ UNCHANGED <<year, trim, hull, armor, engine, batteries, torps, mines, asw,
                   wgts, overflow_checks, out, threads>>
    /\ IF file.exists
       THEN /\ file' = File(Document(ThisShip))
            /\ ret' = [NoCall EXCEPT !.op = "save", !.s = "ok", !.on = ThisShip]
       ELSE /\ file' = file
            /\ ret' = [NoCall EXCEPT !.op = "save", !.s = "io error",
                                     !.lines = <<"NotFound">>, !.on = ThisShip]

\* ship.save(p) with the step-th file operation failing (1: the open that
\* truncates, 2: the open that appends, 3: the write of the version line,
\* 4: the write of the ship line); a failing write may leave a part of its
\* line behind (torn). save() returns the error at once.
SaveSteps == 1..4
SaveFault(step, torn) ==
    /\ file.exists
    /\ torn => step >= 3
    /\ UNCHANGED <<year, trim, hull, armor, engine, batteries, torps, mines, asw,
                   wgts, overflow_checks, out, threads>>
    /\ file' = CASE step = 1 -> file
                 [] step = 2 -> File(<<>>)
                 [] step = 3 -> File(IF torn THEN <<Torn>> ELSE <<>>)
                 [] step = 4 -> File(<<VersionRecord(SHIP_FILE_VERSION)>> \o
                                     (IF torn THEN <<Torn>> ELSE <<>>))
    /\ ret' = [NoCall EXCEPT !.op = "save", !.s = "io error", !.n = step,
                             !.lines = <<"io">>, !.on = ThisShip]

\* let ship = Ship::default()
NewShip ==
    /\ year' = DefaultShip.year /\ trim' = DefaultShip.trim
    /\ hull' = DefaultShip.hull /\ armor' = DefaultShip.armor
    /\ engine' = DefaultShip.engine /\ batteries' = DefaultShip.batteries
    /\ torps' = DefaultShip.torps /\ mines' = DefaultShip.mines
    /\ asw' = DefaultShip.asw /\ wgts' = DefaultShip.wgts
    /\ UNCHANGED <<overflow_checks, out, ret, threads, file>>

\* The file is written by other means than save(): std::fs::write(p, ..).
PutFile(records) ==
    /\ file' = File(records)
    /\ ret' = [NoCall EXCEPT !.op = "fs::write"]
    /\ UNCHANGED <<year, trim, hull, armor, engine, batteries, torps, mines, asw,
                   wgts, overflow_checks, out, threads>>

----------------------------------------------------------------------------
(* The SpringSharp file: convert() *)

\* A line of the file: its words, and the number it spells if it spells one
\* (num TRUE).
TextLine(words) == [num |-> FALSE, n |-> 0, words |-> words]
NumLine(n) == [num |-> TRUE, n |-> n, words |-> <<>>]

\* line.contains(pat), on words.
Contains(line, pat) ==
    \E i \in 0..(Len(line.words) - Len(pat)) :
        \A j \in 1..Len(pat) : line.words[i + j] = pat[j]

\* The positional fields convert() reads after the header, of those the
\* model carries, in the order of the reads: the name, the year, for each
\* battery the mounts of group 0 above and below deck, for each battery the
\* mount total, the trim, for each battery the mounts of group 1 above, on and
\* below deck, then once more for each battery group 0 above and below and
\* group 1 above, a line that is read and dropped, and group 1 below, and the
\* void weight. A "text" is taken as it is, a "u32" and a "u8" are parsed with
\* `?`, and each is taken with lines.next().unwrap().
Fields ==
    <<"text", "u32">> \o
    [i \in 1..(2 * NumBatteries) |-> "u32"] \o
    [i \in 1..NumBatteries |-> "u32"] \o
    <<"u8">> \o
    [i \in 1..(3 * NumBatteries) |-> "u32"] \o
    [i \in 1..(3 * NumBatteries) |-> "u32"] \o
    [i \in 1..NumBatteries |-> "skip"] \o
    [i \in 1..NumBatteries |-> "u32"] \o
    <<"u32">>

\* Where the fields stand in the file (the header is line 1).
AtYear == 3
AtGroup0(b) == 3 + 2 * (b - 1)          \* above at +1, below at +2
AtMountNum(b) == 3 + 2 * NumBatteries + b
AtTrim == 4 + 3 * NumBatteries
AtGroup1Above(b) == AtTrim + b
AtGroup1On(b) == AtTrim + NumBatteries + b
AtGroup1Below(b) == AtTrim + 2 * NumBatteries + b
AtAgain == AtTrim + 3 * NumBatteries
AtGroup0AboveAgain(b) == AtAgain + b
AtGroup0BelowAgain(b) == AtAgain + NumBatteries + b
AtGroup1AboveAgain(b) == AtAgain + 2 * NumBatteries + b
AtGroup1BelowAgain(b) == AtAgain + 4 * NumBatteries + b
NumFields == Len(Fields)

\* Does line i of the file stop convert(), and how: it is missing where
\* unwrap() wants it (panic), or it does not parse (Err).
Missing(l, i) == i > Len(l) /\ Fields[i - 1] # "skip"
Unparsed(l, i) ==
    /\ i <= Len(l)
    /\ \/ Fields[i - 1] = "u32" /\ ~(l[i].num /\ l[i].n >= 0)
       \/ Fields[i - 1] = "u8" /\ ~(l[i].num /\ l[i].n \in 0..MaxU8)
Stops(l, i) == Missing(l, i) \/ Unparsed(l, i)

\* b.groups[0].on = b.mount_num - (the other five placements), in u32: the
\* value as halves <<high, low>>, wrapped modulo 2^32 when the others exceed
\* the total.
BackFillTotal(total, others) == <<0, total>>
BackFill(total, others) ==
    IF others <= total THEN <<0, total - others>>
    ELSE <<U32Half - 1, U32Half - (others - total)>>

\* The placements of battery b as the fields give them.
Others(l, b) ==
    l[AtGroup0AboveAgain(b)].n + l[AtGroup0BelowAgain(b)].n +
    l[AtGroup1AboveAgain(b)].n + l[AtGroup1On(b)].n + l[AtGroup1BelowAgain(b)].n

\* The Ship convert() returns for a file that is read to the end: the
\* default Ship with the fields of the file and the back-filled count.
Converted(l) ==
    [DefaultShip EXCEPT
        !.year = l[AtYear].n,
        !.trim = l[AtTrim].n,
        !.batteries =
            [b \in 1..NumBatteries |->
                [mount_num |-> l[AtMountNum(b)].n,
                 groups |->
                    << [above |-> l[AtGroup0AboveAgain(b)].n,
                        on    |-> BackFill(l[AtMountNum(b)].n, Others(l, b)),
                        below |-> l[AtGroup0BelowAgain(b)].n],
                       [above |-> l[AtGroup1AboveAgain(b)].n,
                        on    |-> <<0, l[AtGroup1On(b)].n>>,
                        below |-> l[AtGroup1BelowAgain(b)].n] >>]]]

\* What convert() gives: Ok(ship), Err(message) or a panic.
ConvertEnd(status, msg, sh, l) ==
    [NoCall EXCEPT !.op = "convert", !.s = status, !.lines = <<msg>>,
                   !.on = sh, !.args = l]

\* Ship::convert(p) on the lines l of the file at p.
ConvertResultLenient(l, checks) ==
    IF Len(l) = 0 THEN ConvertEnd("panic", "unwrap on None", <<>>, l)
    ELSE IF ~Contains(l[1], <<"SpringSharp">>)
    THEN ConvertEnd("error", "Unknown file format", <<>>, l)
    ELSE IF \E i \in 2..(NumFields + 1) : Stops(l, i)
    THEN LET i == CHOOSE i \in 2..(NumFields + 1) :
                      Stops(l, i) /\ \A j \in 2..(i - 1) : ~Stops(l, j)
         IN  IF Missing(l, i)
             THEN ConvertEnd("panic", "unwrap on None", <<>>, l)
             ELSE ConvertEnd("error", "parse", <<>>, l)
    ELSE IF checks /\ \E b \in 1..NumBatteries :
                          Others(l, b) > l[AtMountNum(b)].n
    THEN ConvertEnd("panic", "attempt to subtract with overflow", <<>>, l)
    ELSE ConvertEnd("ok", "", Converted(l), l)
ConvertResult(l, checks) ==
    IF Len(l) = 0 THEN ConvertEnd("panic", "unwrap on None", <<>>, l)
    ELSE IF Contains(l[1], <<"SpringSharp", "Version", "3.0">>)
    THEN IF \E i \in 2..(NumFields + 1) : Stops(l, i)
         THEN LET i == CHOOSE i \in 2..(NumFields + 1) :
                           Stops(l, i) /\ \A j \in 2..(i - 1) : ~Stops(l, j)
              IN  IF Missing(l, i)
                  THEN ConvertEnd("panic", "unwrap on None", <<>>, l)
                  ELSE ConvertEnd("error", "parse", <<>>, l)
         ELSE IF checks /\ \E b \in 1..NumBatteries :
                               Others(l, b) > l[AtMountNum(b)].n
         THEN ConvertEnd("panic", "attempt to subtract with overflow", <<>>, l)
         ELSE ConvertEnd("ok", "", Converted(l), l)
    ELSE IF Contains(l[1], <<"SpringSharp">>)
    THEN ConvertEnd("error", "SpringSharp file too old", <<>>, l)
    ELSE ConvertEnd("error", "Unknown file format", <<>>, l)

\* Ship::convert(p): the caller's Ship is not an argument.
Convert(l) ==
    /\ UNCHANGED <<year, trim, hull, armor, engine, batteries, torps, mines, asw,
                   wgts, overflow_checks, out, threads, file>>
    /\ ret' = ConvertResult(l, overflow_checks)

----------------------------------------------------------------------------
(* Specifications *)

\* The inputs the operations are given.
Displacements == {Zero, F(100), F(500), F(1000), F(1200)}
GunDisplacements == {F(100), F(1000), F(1200)}
ArmourDisplacements == {F(1000), F(1200)}
StrengthYears == {1800, 1850, 1920}
FlotYears     == {1700, 1810, 1850, 1920, 1951}
Trims         == {0, 100, 150, 255}
ReportYears   == {0, 1920}

\* year_adj of every design year.
NextYear == CallYearAdj
SpecYear == InitYear /\ [][NextYear]_vars

\* The crews of every displacement.
NextCrew == CallCrewMax \/ CallCrewMin
SpecCrew == InitCrew /\ [][NextCrew]_vars

\* Displacement, machinery and magazines.
NextDisp ==
    \/ \E d \in Displacements : SetD(d)
    \/ \E e \in EngineKinds : SetEngine(e)
    \/ \E i \in {1, 2}, b \in BatteryKinds : SetBattery(i, b)
SpecDisp == Init /\ [][NextDisp]_vars

\* Guns against displacement, and the reports made of them.
NextGuns ==
    \/ \E d \in GunDisplacements : SetD(d)
    \/ \E b \in {NoBattery, MainBattery, HeavyBattery} : SetBattery(1, b)
    \/ Report
SpecGuns == Init /\ [][NextGuns]_vars

\* Armour against displacement, and the reports made of it.
NextArmour ==
    \/ \E a \in ArmorKinds : SetArmor(a)
    \/ \E d \in ArmourDisplacements : SetD(d)
    \/ \E b \in {MainBattery, HeavyBattery} : SetBattery(1, b)
    \/ Report
SpecArmour == Init /\ [][NextArmour]_vars

\* The two strengths over years, hulls and batteries.
NextStrength ==
    \/ \E y \in StrengthYears : SetYear(y)
    \/ \E h \in HullKinds : SetHull(h)
    \/ \E b \in {MainBattery, LightBattery} : SetBattery(1, b)
    \/ CallStrComp
SpecStrength == Init /\ [][NextStrength]_vars

\* Flotation over years and trims.
NextFlot ==
    \/ \E y \in FlotYears : SetYear(y)
    \/ \E t \in Trims : SetTrim(t)
    \/ CallFlotation
SpecFlot == Init /\ [][NextFlot]_vars

\* Reports of sound and of failed designs, of every year.
NextReport ==
    \/ \E y \in ReportYears : SetYear(y)
    \/ \E h \in {BaseHull, ImpossibleHull} : SetHull(h)
    \/ \E a \in {BaseArmor, CitadelArmor} : SetArmor(a)
    \/ \E b \in {MainBattery, HeavyBattery} : SetBattery(1, b)
    \/ Report
SpecReport == Init /\ [][NextReport]_vars

\* Torpedo mounts of every variant, loaded and empty.
NextTorps ==
    \/ \E i \in {1, 2}, k \in MountKinds, n \in {0, 3} : SetTorps(i, Mount(k, n))
    \/ CallDeckSpace
    \/ CallHullSpace
SpecTorps == Init /\ [][NextTorps]_vars

\* Seakeeping over trims, hulls and machinery.
SeaTrims == {20, 50, 100}
NextSea ==
    \/ \E t \in SeaTrims : SetTrim(t)
    \/ \E h \in {BaseHull, ImpossibleHull} : SetHull(h)
    \/ \E e \in {BaseEngine, BigEngine} : SetEngine(e)
    \/ CallTypeSea
    \/ CallSeakeepingDesc
SpecSea == Init /\ [][NextSea]_vars

\* Ships with and without speed, and the reports made of them.
NextSpeed ==
    \/ \E e \in EngineKinds : SetEngine(e)
    \/ \E h \in {BaseHull, LongHull} : SetHull(h)
    \/ CallSeaboat
    \/ Report
SpecSpeed == Init /\ [][NextSpeed]_vars

\* Stable and unstable ships, and the reports made of them.
NextCapsize ==
    \/ \E t \in {100, 150} : SetTrim(t)
    \/ \E h \in {BaseHull, ZeroBeamHull} : SetHull(h)
    \/ CallCapsizeWarn
    \/ Report
SpecCapsize == Init /\ [][NextCapsize]_vars

\* Costs over design years and gun mounts.
CostYears == {1900, 1912, 1913}
NextCost ==
    \/ \E y \in CostYears : SetYear(y)
    \/ \E b \in {MainBattery, BarbetteBattery} : SetBattery(1, b)
    \/ CallCostDollar
    \/ CallCostLb
SpecCost == Init /\ [][NextCost]_vars

\* Armour weights over machinery, armour schemes and magazines.
NextDeck ==
    \/ \E e \in EngineKinds : SetEngine(e)
    \/ \E a \in ArmorKinds : SetArmor(a)
    \/ \E b \in {NoBattery, MainBattery} : SetBattery(1, b)
    \/ CallWgtArmor
SpecDeck == Init /\ [][NextDeck]_vars

\* Threads reading one Ship, and its owner changing it between their calls.
ThreadYears == {1913}
NextThreads ==
    \/ \E t \in Threads, op \in Accessors : Enter(t, op)
    \/ \E t \in Threads : Leave(t)
    \/ Unborrowed /\ \E y \in ThreadYears : SetYear(y)
SpecThreads == Init /\ [][NextThreads]_vars

\* Ship files: files to be found at the path, ships to save, saves that go
\* through and saves that fail, and loads.
Documents ==
    { <<>>, <<Torn>>, <<Junk>>,
      <<VersionRecord(1)>>, <<VersionRecord(1), Junk>>,
      <<VersionRecord(1), Torn>>,
      <<VersionRecord(1), ShipRecord([EncShip(DefaultShip) EXCEPT !.trim = 256])>>,
      <<VersionRecord(0), Junk>>, <<VersionRecord(2)>>,
      <<VersionRecord(2), ShipRecord(EncShip(DefaultShip))>>,
      <<ShipRecord(EncShip(DefaultShip)), VersionRecord(1)>> }
NextFile ==
    \/ NewShip
    \/ SetHull([BaseHull EXCEPT !.b = NaN])
    \/ \E r \in Documents : PutFile(r)
    \/ Save
    \/ \E step \in SaveSteps, torn \in BOOLEAN : SaveFault(step, torn)
    \/ Load
SpecFile == Init /\ [][NextFile]_vars

\* SpringSharp files: a file with every field, by its header, year, trim,
\* mount total and the mounts above and below deck of group 0 and above, on
\* and below deck of group 1 (the same for each battery).
Repeat(n, line) == [i \in 1..n |-> line]
Legacy(header, y, t, total, a0, b0, a1, on1, b1) ==
    <<TextLine(header), TextLine(<<"Dreadnought">>), NumLine(y)>> \o
    [i \in 1..(2 * NumBatteries) |->
        IF i % 2 = 1 THEN NumLine(a0) ELSE NumLine(b0)] \o
    Repeat(NumBatteries, NumLine(total)) \o
    <<NumLine(t)>> \o
    Repeat(NumBatteries, NumLine(a1)) \o
    Repeat(NumBatteries, NumLine(on1)) \o
    Repeat(NumBatteries, NumLine(b1)) \o
    Repeat(NumBatteries, NumLine(a0)) \o
    Repeat(NumBatteries, NumLine(b0)) \o
    Repeat(NumBatteries, NumLine(a1)) \o
    Repeat(NumBatteries, NumLine(on1)) \o
    Repeat(NumBatteries, NumLine(b1)) \o
    <<NumLine(0)>>

Version3 == <<"SpringSharp", "Version", "3.0">>
GoodLegacy == Legacy(Version3, 1906, 50, 4, 1, 0, 1, 1, 0)

\* Files of each header, whole and cut short, with fields that parse and
\* fields that do not, with placements within the mount total and beyond it.
LegacyFiles ==
    { <<>>, GoodLegacy,
      Legacy(<<"Saved", "by">> \o Version3, 1890, 0, 2, 0, 0, 0, 0, 0),
      Legacy(Version3, 1906, 150, 4, 1, 1, 1, 0, 1),
      Legacy(Version3, 1906, 50, 2, 1, 0, 1, 1, 0),
      Legacy(<<"SpringSharp", "Version", "2.1">>, 1906, 50, 4, 1, 0, 1, 1, 0),
      Legacy(<<"Microsoft", "Excel">>, 1906, 50, 4, 1, 0, 1, 1, 0),
      <<TextLine(<<"SpringSharp", "Version", "2.1">>)>>,
      <<TextLine(<<"Version", "3.0">>)>>,
      [GoodLegacy EXCEPT ![AtYear] = TextLine(<<"MCMVI">>)],
      [GoodLegacy EXCEPT ![AtTrim] = NumLine(300)],
      [GoodLegacy EXCEPT ![AtMountNum(2)] = NumLine(0 - 1)] }
    \cup { SubSeq(GoodLegacy, 1, n) : n \in {1, 2, AtTrim, NumFields - 1, NumFields} }
NextConvert ==
    \/ \E l \in LegacyFiles : Convert(l)
    \/ NewShip
    \/ SetYear(1906)
SpecConvert == Init /\ [][NextConvert]_vars

\* The longitudinal strength over design years and hulls.
LongYears == {0, 1700, 1800, 1850, 1890, 1900, 1920}
NextLong ==
    \/ \E y \in LongYears : SetYear(y)
    \/ \E h \in HullKinds : SetHull(h)
    \/ \E b \in {MainBattery, LightBattery} : SetBattery(1, b)
    \/ CallStrLong
SpecLong == Init /\ [][NextLong]_vars

\* Ships from Ship::default(), load() and convert(): ship files that the
\* decoder accepts, with a trim of 200, no torpedo mount, one ASW record and
\* six batteries among them, and the SpringSharp files.
ShipDocuments ==
    { Document(DefaultShip),
      Document([DefaultShip EXCEPT !.trim = 200]),
      Document([DefaultShip EXCEPT !.torps = <<>>]),
      Document([DefaultShip EXCEPT !.asw = <<[wgt |-> Zero]>>]),
      Document([DefaultShip EXCEPT
                    !.batteries = [i \in 1..NumBatteries + 1 |-> NoBattery]]),
      Document([DefaultShip EXCEPT !.batteries = <<NoBattery>>]),
      <<VersionRecord(1), Junk>> }
NextShips ==
    \/ NewShip
    \/ \E r \in ShipDocuments : PutFile(r)
    \/ Load
    \/ \E l \in LegacyFiles : Convert(l)
SpecShips == Init /\ [][NextShips]_vars

\* The weights over displacements, batteries, armour and machinery; the
\* 100 t hull is lighter than what it carries.
WeightDisplacements == {F(100), F(1000), Lit(12345, 10), NaN}
NextWeights ==
    \/ \E d \in WeightDisplacements : SetD(d)
    \/ \E b \in {NoBattery, MainBattery} : SetBattery(1, b)
    \/ \E a \in {BaseArmor, CitadelArmor} : SetArmor(a)
    \/ \E e \in {BaseEngine, BigEngine} : SetEngine(e)
    \/ CallWgtHull
SpecWeights == Init /\ [][NextWeights]_vars

\* Stiff, tender and capsizing ships, a hull without beam and one whose
\* stability is no number, and the reports made of them.
NextTender ==
    \/ \E t \in {100, 150} : SetTrim(t)
    \/ \E h \in {BaseHull, ZeroBeamHull, [BaseHull EXCEPT !.bb = NaN]} :
           SetHull(h)
    \/ CallTenderWarn
    \/ Report
SpecTender == Init /\ [][NextTender]_vars

\* Shell hits over design years, with and without a main battery.
ShellYears == {1810, 1850, 1920, 1950, 1951, 1960}
NextShells ==
    \/ \E y \in ShellYears : SetYear(y)
    \/ \E b \in {NoBattery, MainBattery, HeavyBattery} : SetBattery(1, b)
    \/ CallDamageShellNum
SpecShells == Init /\ [][NextShells]_vars

\* Ships with and without guns, the default Ship among them.
NextGunless ==
    \/ NewShip
    \/ \E b \in {NoBattery, MainBattery} : SetBattery(1, b)
    \/ \E b \in {NoBattery, LightBattery} : SetBattery(2, b)
    \/ \E t \in {0, 100} : SetTrim(t)
    \/ CallStability
SpecGunless == Init /\ [][NextGunless]_vars

\* The whole program: every operation.
Next ==
    \/ \E y \in ReportYears : SetYear(y)
    \/ \E t \in Trims : SetTrim(t)
    \/ \E d \in ArmourDisplacements : SetD(d)
    \/ \E h \in HullKinds : SetHull(h)
    \/ \E b \in BatteryKinds : SetBattery(1, b)
    \/ \E a \in ArmorKinds : SetArmor(a)
    \/ \E e \in EngineKinds : SetEngine(e)
    \/ Report
    \/ CallYearAdj \/ CallCrewMax \/ CallCrewMin
    \/ CallStrComp \/ CallFlotation
    \/ \E k \in {"CenterTubes", "SubmergedReloads"} : SetTorps(1, Mount(k, 3))
    \/ CallDeckSpace \/ CallHullSpace
    \/ CallTypeSea \/ CallSeakeepingDesc \/ CallSeaboat \/ CallCapsizeWarn
    \/ CallCostDollar \/ CallCostLb \/ CallWgtArmor
    \/ CallStrLong \/ CallWgtHull \/ CallTenderWarn
    \/ CallDamageShellNum \/ CallStability
    \/ \E t \in Threads, op \in Accessors : Enter(t, op)
    \/ \E t \in Threads : Leave(t)
    \/ NewShip \/ Save \/ Load
    \/ \E l \in LegacyFiles : Convert(l)
    \/ \E r \in Documents : PutFile(r)
    \/ \E step \in SaveSteps, torn \in BOOLEAN : SaveFault(step, torn)
Spec == Init /\ [][Next]_vars

----------------------------------------------------------------------------
(* Claims *)

\* |a - b| <= tol
Within(a, b, tol) == FLe(FAbs(FSub(a, b)), tol)

\* The lines of a report, as a set.
Lines(o) == {o.lines[i] : i \in DOMAIN o.lines}

\* C1: year_adj is a total piecewise function of the design year.  Up to
\* 1890 it is 1 - (1890 - y)/66.666664, stated here through its inverse:
\* (1 - year_adj(y)) * 66.666664 gives back the 1890 - y years, to a fiftieth
\* of a year.  From 1891 to 1950 it is 1.0 and after 1950 it is 0.0; at the
\* years of the test, 1889 gives 0.985, 1950 gives 1.0 and 1951 gives 0.0.
C1_YearAdjPiecewise ==
    ret.op = "year_adj" =>
        /\ year <= 1890 =>
               Within(FMul(FSub(F(1), ret.f), Lit(66666664, 1000000)),
                      F(1890 - year), Lit(2, 100))
        /\ (1890 < year /\ year <= 1950) => ret.f = F(1)
        /\ year > 1950 => ret.f = Zero
        /\ year = 1889 => Within(ret.f, Lit(985, 1000), Lit(1, 100000))

\* C1 witness: year_adj is called for 1889 and returns 0.985.
C1_Witness ==
    /\ ret.op = "year_adj" /\ year = 1889
    /\ Within(ret.f, Lit(985, 1000), Lit(1, 100000))

\* C10: crew_max is 0.65 * d^0.75 truncated to a whole number, stated through
\* its inverse: (crew_max / 0.65)^4 <= d^3 < ((crew_max + 1) / 0.65)^4, to one
\* part in ten thousand.  crew_min is 0.7692 * crew_max truncated, and never
\* exceeds crew_max; 0 t gives 0 and 0, 1000 t gives 115 and 88.
C10_CrewTruncated ==
    LET d3    == PowNat(hull.d, 3)
        lo    == PowNat(FDiv(F(ret.n), Lit(65, 100)), 4)
        hi    == PowNat(FDiv(F(ret.n + 1), Lit(65, 100)), 4)
        slack == Lit(10001, 10000)
    IN  /\ ret.op = "crew_max" =>
               /\ FLe(lo, FMul(d3, slack))
               /\ FLt(d3, FMul(hi, slack))
               /\ hull.d = Zero => ret.n = 0
               /\ hull.d = F(1000) => ret.n = 115
        /\ ret.op = "crew_min" =>
               /\ ret.n * 10000 <= crew_max * 7692
               /\ crew_max * 7692 < (ret.n + 1) * 10000
               /\ ret.n <= crew_max
               /\ hull.d = Zero => ret.n = 0
               /\ hull.d = F(1000) => ret.n = 88

\* C10 witness: crew_min is called at 1000 t, where crew_max is 115, and
\* returns 88.
C10_Witness ==
    ret.op = "crew_min" /\ hull.d = F(1000) /\ crew_max = 115 /\ ret.n = 88

\* C9 (as the code has it): standard displacement is normal less the bunker,
\* light displacement is normal less bunker, magazines and stores of 2% of
\* normal, so that d_std - d_lite is magazines plus stores; and maximum
\* displacement is normal plus 0.8 of the same bunker weight that standard
\* displacement takes off, whatever the bunker at maximum displacement is.
C9_DisplacementVariants ==
    LET tol == FMul(FAdd(hull.d, F(1)), Lit(1, 10000))
    IN  /\ Within(FSub(hull.d, d_std), engine.bunker, tol)
        /\ Within(FSub(hull.d, d_lite),
                  FAdd(FAdd(engine.bunker, wgt_mag), FMul(hull.d, Lit(2, 100))), tol)
        /\ Within(FSub(d_std, d_lite),
                  FAdd(wgt_mag, FMul(hull.d, Lit(2, 100))), tol)
        /\ Within(FSub(d_max, hull.d), FMul(Lit(8, 10), engine.bunker), tol)

\* C9 as claimed: d_max - normal is 0.8 of the maximum bunker weight.
C9_MaxBunker ==
    Within(FSub(d_max, hull.d), FMul(Lit(8, 10), engine.bunker_max),
           FMul(FAdd(hull.d, F(1)), Lit(1, 10000)))

\* C9 witness: a ship with magazines whose maximum bunker exceeds its bunker,
\* and whose maximum displacement is 0.8 of the bunker above normal.
C9_Witness ==
    /\ engine = BigEngine /\ hull.d = F(1200) /\ FGt(wgt_mag, Zero)
    /\ FGt(engine.bunker_max, engine.bunker)
    /\ d_max = F(1360) /\ d_std = F(1000)

\* C5 (as the code has it): a report carries the gun weight failure exactly
\* when the broadside weight, in pounds, exceeds four times the displacement
\* in tons (d < wgt_broad / 4).
C5_GunFlagFourTimes ==
    [][Report =>
         /\ out'.status = "ok"
         /\ (GunLine \in Lines(out')) <=> FGt(wgt_broad, FMul(F(4), hull.d))]_vars

\* C5 as claimed: a report carries the gun weight failure exactly when the
\* gun weight exceeds a quarter of the displacement.
C5_GunFlagQuarter ==
    [][Report =>
         ((GunLine \in Lines(out')) <=> FGt(wgt_broad, FDiv(hull.d, F(4))))]_vars

\* C5 witness: a report of a ship whose broadside is beyond four times its
\* displacement carries the failure.
C5_Witness ==
    /\ out.status = "ok" /\ GunLine \in Lines(out)
    /\ FGt(wgt_broad, FMul(F(4), hull.d)) /\ FGt(hull.d, Zero)

\* C6: the armour weight flag is monotonic in armour weight.  Of two
\* successive reports of which the later prints the same displacement and an
\* armour weight no smaller, the later carries the armour failure line
\* whenever the earlier does; and a report carries the line exactly when the
\* armour weight it prints exceeds the displacement it prints.
C6_ArmourFlagMonotonic ==
    [][/\ (/\ out.status = "ok" /\ out'.status = "ok"
           /\ out'.d = out.d /\ FGe(out'.wgt_armor, out.wgt_armor)
           /\ ArmourLine \in Lines(out))
              => ArmourLine \in Lines(out')
       /\ out'.status = "ok" =>
              ((ArmourLine \in Lines(out')) <=> FGt(out'.wgt_armor, out'.d))]_vars

\* C6 witness: a report of a ship with thickened armour heavier than its
\* displacement carries the failure.
C6_Witness ==
    /\ out.status = "ok" /\ ArmourLine \in Lines(out)
    /\ armor = CitadelArmor /\ FGt(out.wgt_armor, out.d) /\ out.d = F(1000)

\* C7 as claimed: whenever the two strengths are equal, str_comp() returns
\* that same value.
C7_EqualStrengths ==
    [][(CallStrComp /\ ret'.op = "str_comp" /\ FEq(str_cross, str_long))
           => FEq(ret'.f, str_cross)]_vars

\* Same sign, neither zero nor NaN: the ratio of the two is positive.
RatioPositive(a, b) == FGt(FDiv(a, b), Zero)

\* a = b to one part in a thousand of b.
Near(a, b) == Within(a, b, FMul(FAbs(b), Lit(1, 1000)))

\* C8 (as the code has it): str_comp() takes the SMALLER of the two strengths
\* as its base and multiplies it by (larger / smaller)^e, e = 0.25 when the
\* cross-sectional strength is the larger and e = 0.1 otherwise; stated
\* through the inverse, (str_comp / smaller)^(1/e) = larger / smaller.
C8_SmallerBase ==
    [][(CallStrComp /\ ret'.op = "str_comp") =>
         Let2(str_cross, str_long, LAMBDA cross, long :
              /\ (FGt(cross, long) /\ RatioPositive(cross, long)) =>
                     Near(PowNat(FDiv(ret'.f, long), 4), FDiv(cross, long))
              /\ (FLt(cross, long) /\ RatioPositive(cross, long)) =>
                     Near(PowNat(FDiv(ret'.f, cross), 10), FDiv(long, cross)))]_vars

\* C8 as claimed: the LARGER strength is the base, multiplied by the ratio of
\* the two (either way round) to the power e.
C8_LargerBase ==
    [][(CallStrComp /\ ret'.op = "str_comp") =>
         Let2(str_cross, str_long, LAMBDA cross, long :
              /\ (FGt(cross, long) /\ RatioPositive(cross, long)) =>
                     \/ Near(PowNat(FDiv(ret'.f, cross), 4), FDiv(cross, long))
                     \/ Near(PowNat(FDiv(ret'.f, cross), 4), FDiv(long, cross))
              /\ (FLt(cross, long) /\ RatioPositive(cross, long)) =>
                     \/ Near(PowNat(FDiv(ret'.f, long), 10), FDiv(long, cross))
                     \/ Near(PowNat(FDiv(ret'.f, long), 10), FDiv(cross, long)))]_vars

\* C8 witness: str_comp() has been called on the long narrow hull, where the
\* cross-sectional strength is the larger, and returned a value between the
\* two strengths.
C8_Witness ==
    /\ ret.op = "str_comp" /\ hull = LongHull /\ year = 1920
    /\ batteries[1] = MainBattery
    /\ FGt(str_cross, str_long) /\ FGt(str_long, Zero)
    /\ ret.f = str_comp /\ FGt(ret.f, str_long) /\ FLt(ret.f, str_cross)

\* C2: flotation() never returns a negative value, nor a NaN: whatever the
\* year, the value returned is >= 0.
C2_FlotationNonNegative ==
    [][(CallFlotation /\ ret'.op = "flotation") => FGe(ret'.f, Zero)]_vars

\* C2 witness: flotation() has returned 0 for a ship of 1810, whose product
\* with year_adj is negative before the floor.
C2_Witness ==
    /\ ret.op = "flotation" /\ year = 1810 /\ trim = 100 /\ ret.f = Zero
    /\ FLt(year_adj(year), Zero)
    /\ FLt(Let4(stability_adj, str_comp, room, year_adj(year),
                FlotationUnclamped), Zero)

\* C3 (as the code has it): with every other input fixed, flotation does not
\* increase as a NON-NEGATIVE stability_adj moves further below 1.0, and it
\* decreases strictly where the flotation of the higher stability is above
\* the floor of zero: for the stability_adj values s1 < s2 that two trims
\* give, 0 <= s1 < s2 <= 1, flotation at s1 is <= flotation at s2, and < where
\* the latter is positive.
C3_FlotationMonotone ==
    [][(CallFlotation /\ ret'.op = "flotation") =>
         Let4(stability, str_comp, room, year_adj(year),
              LAMBDA stab, comp, rm, adj :
              \A t2 \in Trims :
                  (/\ FLe(Zero, StabilityAdj(stab, trim))
                   /\ FLt(StabilityAdj(stab, trim), StabilityAdj(stab, t2))
                   /\ FLe(StabilityAdj(stab, t2), F(1))) =>
                      /\ FLe(ret'.f, Flotation(StabilityAdj(stab, t2), comp, rm, adj))
                      /\ FGt(Flotation(StabilityAdj(stab, t2), comp, rm, adj), Zero)
                            => FLt(ret'.f, Flotation(StabilityAdj(stab, t2),
                                                     comp, rm, adj)))]_vars

\* C3 as claimed: for any two stability_adj values s1 < s2 <= 1.0, flotation
\* at s1 is strictly smaller than flotation at s2.
C3_FlotationStrict ==
    [][(CallFlotation /\ ret'.op = "flotation") =>
         Let4(stability, str_comp, room, year_adj(year),
              LAMBDA stab, comp, rm, adj :
              \A t2 \in Trims :
                  (/\ FLt(StabilityAdj(stab, trim), StabilityAdj(stab, t2))
                   /\ FLe(StabilityAdj(stab, t2), F(1))) =>
                      FLt(ret'.f, Flotation(StabilityAdj(stab, t2),
                                            comp, rm, adj)))]_vars

\* C3 witness: flotation() has been called at trim 150 in 1920, where the
\* stability_adj is below that of trim 100, itself below 1.0, and returned
\* less than the flotation of trim 100.
C3_Witness ==
    /\ ret.op = "flotation" /\ year = 1920 /\ trim = 150 /\ ret.f = flotation
    /\ FLt(stability_adj, StabilityAdj(stability, 100))
    /\ FLe(StabilityAdj(stability, 100), F(1))
    /\ FGt(ret.f, Zero)
    /\ FLt(ret.f, Let4(StabilityAdj(stability, 100), str_comp, room,
                       year_adj(year), Flotation))

\* C4 as claimed: every report() returns, carries each of the five DESIGN
\* FAILURE lines exactly when that line's own condition holds, and carries
\* every metric section whether or not the design has failed.
C4_ReportAlwaysComplete ==
    [][Report =>
         /\ out'.status = "ok"
         /\ \A i \in DOMAIN Sections : Sections[i] \in Lines(out')
         /\ (CbLine \in Lines(out')) <=> CbFailure
         /\ (GunLine \in Lines(out')) <=> GunFailure
         /\ (ArmourLine \in Lines(out')) <=> ArmourFailure
         /\ (LoadLine \in Lines(out')) <=> LoadFailure
         /\ (CapsizeLine \in Lines(out')) <=> CapsizeFailure]_vars

\* The ship carries torpedoes, and all of them in mounts of the given
\* variants.
OnlyTorpsIn(kinds) ==
    /\ \E i \in 1..Len(torps) : torps[i].num > 0
    /\ \A i \in 1..Len(torps) : torps[i].num > 0 => torps[i].kind \in kinds

\* C11: deck_space() and hull_space() are never negative; a ship whose only
\* torpedoes are deck-mounted has deck_space > 0 and hull_space = 0, one whose
\* only torpedoes are hull-mounted has hull_space > 0 and deck_space = 0; and
\* an empty mount adds nothing: with one mount empty, each sum is what the
\* other mount alone gives.
C11_TorpedoSpace ==
    [][/\ CallDeckSpace =>
              /\ FGe(ret'.f, Zero)
              /\ OnlyTorpsIn(DeckMountKinds) => FGt(ret'.f, Zero)
              /\ OnlyTorpsIn(HullMountKinds) => ret'.f = Zero
              /\ torps[1].num = 0 => ret'.f = FDiv(torps[2].deck_space, hull.wp)
              /\ torps[2].num = 0 => ret'.f = FDiv(torps[1].deck_space, hull.wp)
       /\ CallHullSpace =>
              /\ FGe(ret'.f, Zero)
              /\ OnlyTorpsIn(HullMountKinds) => FGt(ret'.f, Zero)
              /\ OnlyTorpsIn(DeckMountKinds) => ret'.f = Zero
              /\ torps[1].num = 0 =>
                     ret'.f = FDiv(torps[2].hull_space,
                                   FMul(hull.d, F(FT3_PER_TON_SEA)))
              /\ torps[2].num = 0 =>
                     ret'.f = FDiv(torps[1].hull_space,
                                   FMul(hull.d, F(FT3_PER_TON_SEA)))]_vars

\* C11 witness: hull_space() has been called on a ship whose only torpedoes
\* are three in submerged reloads, beside an empty centre-tube mount, and
\* returned a positive value while the deck space is zero.
C11_Witness ==
    /\ ret.op = "hull_space" /\ FGt(ret.f, Zero) /\ ret.f = hull_space
    /\ torps[1] = Mount("SubmergedReloads", 3) /\ torps[2] = Mount("CenterTubes", 0)
    /\ deck_space = Zero

\* The band of a seakeeping value, as claimed.
SeaBandOf(v) ==
    CASE FLt(v, Lit(7, 10))                                -> "BadSea"
      [] FGe(v, Lit(7, 10)) /\ FLt(v, Lit(995, 1000))      -> "PoorSea"
      [] FGe(v, Lit(995, 1000)) /\ FLt(v, Lit(12, 10))     -> "Error"
      [] FGe(v, Lit(12, 10)) /\ FLt(v, Lit(15, 10))        -> "GoodSea"
      [] FGe(v, Lit(15, 10))                               -> "FineSea"
      [] OTHER                                             -> "no band"

\* The advisory strings of the five bands.
SeaAdvisories ==
    { "Caution: Lacks seaworthiness - very limited seakeeping ability",
      "Poor seaboat, wet and uncomfortable, reduced performance in heavy weather",
      "Good seaboat, rides out heavy weather easily",
      "Excellent seaboat, comfortable, can fire her guns in the heaviest weather",
      "Excellent seaboat, comfortable, rides out heavy weather easily",
      "Invalid SeaType" }

\* C12: type_sea() gives every seakeeping() value the one band the claimed
\* intervals give it (BadSea below 0.7, PoorSea from 0.7, Error from 0.995,
\* GoodSea from 1.2, FineSea from 1.5), and seakeeping_desc() ends with the
\* advisory of that band and holds no other advisory; the Error band yields
\* "Invalid SeaType".
C12_SeaBands ==
    [][/\ CallTypeSea => ret'.s = SeaBandOf(ret'.f)
       /\ CallSeakeepingDesc =>
              /\ Len(ret'.lines) >= 1
              /\ ret'.lines[Len(ret'.lines)] = SeaAdvisory(SeaBandOf(ret'.f))
              /\ SeaBandOf(ret'.f) = "Error" =>
                     ret'.lines[Len(ret'.lines)] = "Invalid SeaType"
              /\ Cardinality({i \in DOMAIN ret'.lines :
                                 ret'.lines[i] \in SeaAdvisories}) = 1]_vars

\* C12 witness: type_sea() has classified a seakeeping value between 0.995
\* and 1.2 as the Error band.
C12_Witness ==
    /\ ret.op = "type_sea" /\ ret.s = "Error"
    /\ FGe(ret.f, Lit(995, 1000)) /\ FLt(ret.f, Lit(12, 10))
    /\ ret.f = seakeeping

\* The share of the frictional in the whole resistance.
ResistanceShare == FDiv(engine.rf_max, FAdd(engine.rf_max, engine.rw_max))

\* What C13 claims of the values seaboat() and report() give, the divisions
\* aside: 0.3025 and the immobile line without speed; with speed the squared
\* share below 0.55, 0.3025 from there, and the machinery lines.
C13_SpeedValues ==
    /\ CallSeaboat =>
           /\ FEq(engine.vmax, Zero) => ret'.aux = Lit(3025, 10000)
           /\ FGt(engine.vmax, Zero) =>
                  ret'.aux = IF FLt(ResistanceShare, Lit(55, 100))
                             THEN FMul(ResistanceShare, ResistanceShare)
                             ELSE Lit(3025, 10000)
    /\ (Report /\ out'.status = "ok") =>
           /\ FEq(engine.vmax, Zero) =>
                  /\ "    Immobile floating battery" \in Lines(out')
                  /\ \A i \in DOMAIN MachineryLines :
                         MachineryLines[i] \notin Lines(out')
           /\ FGt(engine.vmax, Zero) =>
                  /\ "    Immobile floating battery" \notin Lines(out')
                  /\ \A i \in DOMAIN MachineryLines :
                         MachineryLines[i] \in Lines(out')

\* C13 as claimed: zero maximum speed short-circuits the speed-dependent
\* formulas: without speed seaboat() takes 0.3025 and divides by zero
\* nowhere on the way, and report() prints the immobile line in place of the
\* machinery lines; with speed the factor is the squared share below 0.55
\* and 0.3025 from there.
C13_ZeroSpeedShortCircuit ==
    [][/\ C13_SpeedValues
       /\ (CallSeaboat /\ FEq(engine.vmax, Zero)) =>
              \A i \in DOMAIN ret'.divs : ~FEq(ret'.divs[i], Zero)]_vars

\* C13, the divisions aside.
C13_ValuesOnly == [][C13_SpeedValues]_vars

\* C14: capsize_warn() is true exactly when metacenter() <= 0, and a report
\* carries "DESIGN FAILURE: Ship will capsize" exactly when the metacenter of
\* the ship reported is <= 0.
C14_CapsizeIffMetacenter ==
    [][/\ CallCapsizeWarn => (ret'.b <=> FLe(ret'.f, Zero))
       /\ (Report /\ out'.status = "ok") =>
              ((CapsizeLine \in Lines(out')) <=> FLe(metacenter, Zero))]_vars

\* C14 witness: capsize_warn() has returned true for a ship whose
\* metacenter is exactly 0, and the report of that ship carries the failure.
C14_Witness ==
    /\ ret.op = "capsize_warn" /\ ret.b /\ ret.f = Zero /\ metacenter = Zero
    /\ out.status = "ok" /\ CapsizeLine \in Lines(out)

\* The cost before escalation of the weights <<light ship, machinery,
\* broadside, borne guns>>, pricing the guns by the weight at index g.
CostBase(w, g) ==
    FAdd(FAdd(FMul(w[1], Lit(14, 100000)), FMul(w[2], Lit(56, 100000))),
         FMul(FMul(w[g], F(8)), Lit(42, 100000)))

\* C15 (as the code has it): cost_dollar() is 0.00014 of the light-ship
\* weight plus 0.00056 of the engine weight plus 0.00042 of eight times the
\* BORNE gun weight wgt_borne(), times an escalation e with
\* (e - 1) * 5.5 = year + 1.5 - 1914 for year >= 1913 and e = 1 for
\* year <= 1912; and cost_lb() is cost_dollar() / 4.
C15_CostLinearInBorne ==
    /\ ret.op = "cost_dollar" =>
           LET base == CostBase(ret.args, 4)
           IN  /\ ret.n <= 1912 => ret.f = base
               /\ ret.n >= 1913 =>
                      /\ FGt(ret.f, base)
                      /\ Within(FMul(FSub(FDiv(ret.f, base), F(1)), Lit(55, 10)),
                                FSub(FAdd(F(ret.n), Lit(15, 10)), F(1914)),
                                Lit(1, 1000))
    /\ ret.op = "cost_lb" => ret.f = FDiv(ret.aux, F(4))

\* C15 as claimed: the cost is decided by the light-ship weight, the engine
\* weight, the gun-broadside weight and the year: two calls of cost_dollar()
\* that find these four equal return the same cost.
C15_CostLinearInBroadside ==
    [][(/\ CallCostDollar /\ ret.op = "cost_dollar" /\ ret'.n = ret.n
        /\ SubSeq(ret'.args, 1, 3) = SubSeq(ret.args, 1, 3))
           => ret'.f = ret.f]_vars

\* C15 witness: cost_dollar() has priced a ship of 1913 above its cost
\* before escalation.
C15_Witness ==
    /\ ret.op = "cost_dollar" /\ ret.n = 1913 /\ year = 1913
    /\ batteries[1] = BarbetteBattery
    /\ FGt(ret.f, CostBase(ret.args, 4)) /\ FGt(CostBase(ret.args, 4), Zero)
    /\ ret.args[4] # ret.args[3]

\* The ship differs from the one the last call was given in its engine alone
\* (or not at all).
SameButEngine == [ret.on EXCEPT !.engine = engine] = ThisShip

\* C16: the deck armour weight and wgt_armor() do not depend on the engine:
\* what wgt_armor() returned, and the deck armour weight it counted, for a
\* ship that differs from this one only in its engine are this ship's own.
C16_DeckArmourIgnoresEngine ==
    (ret.op = "wgt_armor" /\ SameButEngine)
        => (ret.f = wgt_armor /\ ret.aux = deck_wgt)

\* C16 witness: wgt_armor() was called on a ship with another engine and
\* another engine weight, and had the armour weights of this ship, its deck
\* armour included.
C16_Witness ==
    /\ ret.op = "wgt_armor" /\ SameButEngine /\ ret.on.engine # engine
    /\ ret.args[1] # wgt_engine
    /\ FGt(ret.aux, Zero) /\ FGt(ret.f, ret.aux)
    /\ ret.f = wgt_armor /\ ret.aux = deck_wgt

\* What the accessor op returns when it is run alone on the current record.
RunAlone(op) ==
    CASE op = "cost_dollar" -> cost_dollar
      [] op = "wgt_armor"   -> wgt_armor
      [] op = "report"      -> ReportResult

\* C17: the accessors and report() are pure reads. While a thread is inside
\* a call the Ship is the record the call borrowed, whatever calls the other
\* threads make meanwhile; and what a call returned is what the accessor
\* gives on that record: whenever the Ship is (still, or again) the record
\* the call ran on, the value is the one computed from the current record.
C17_PureReads ==
    \A t \in Threads :
        /\ threads[t].pc = "in" => threads[t].on = ThisShip
        /\ (threads[t].pc = "idle" /\ threads[t].op # "none"
            /\ threads[t].on = ThisShip)
               => threads[t].f = RunAlone(threads[t].op)

\* C17 witness: both threads have read the Ship, one before and one after
\* its year was changed, and a third call is running.
C17_Witness ==
    /\ threads[1].pc = "idle" /\ threads[1].op = "cost_dollar"
    /\ threads[1].on # ThisShip
    /\ threads[2].pc = "in" /\ threads[2].op = "cost_dollar"
    /\ threads[1].f # cost_dollar
    /\ year = 1913 /\ threads[1].on = [ThisShip EXCEPT !.year = 1920]

\* C18: round trip. For the Ship that Ship::default() made and nobody
\* changed, save(p) succeeds, and the load(p) that follows it succeeds and
\* returns a Ship equal to the original in every field.
C18_RoundTrip ==
    [][/\ (Save /\ ThisShip = DefaultShip) => ret'.s = "ok"
       /\ (Load /\ ret.op = "save" /\ ret.s = "ok" /\ ret.on = DefaultShip)
              => (ret'.s = "ok" /\ ret'.on = DefaultShip)]_vars

\* C19: load() fails with the version error, whose message names the
\* version, whenever the first record is a Version other than 1, whatever
\* follows it; with a parse error when the first record is missing or is no
\* Version, or when after version 1 the Ship record is missing or does not
\* decode; and a load() that fails returns no Ship and leaves the caller's
\* Ship as it was.
C19_LoadErrors ==
    [][Load =>
          LET r == file.records
          IN  /\ (file.exists /\ Len(r) >= 1 /\ r[1].k = "version"
                  /\ r[1].version # 1)
                     => /\ ret'.s = "version error"
                        /\ ret'.n = r[1].version
                        /\ ret'.lines =
                               <<"Cannot open ship files of this version: {}!">>
              /\ (file.exists
                  /\ (\/ Len(r) = 0
                      \/ r[1].k # "version"
                      \/ /\ r[1].version = 1
                         /\ (\/ Len(r) < 2
                             \/ r[2].k # "ship"
                             \/ ~ShipDecodes(r[2].ship))))
                     => ret'.s = "parse error"
              /\ ret'.s # "ok" => (ret'.on = <<>> /\ UNCHANGED ship)]_vars

\* C19 witness: load() has refused a file of version 2 that holds a Ship
\* record, naming the version, while the caller holds a Ship.
C19_Witness ==
    /\ ret.op = "load" /\ ret.s = "version error" /\ ret.n = 2
    /\ file.exists /\ Len(file.records) = 2
    /\ file.records[1] = VersionRecord(2) /\ file.records[2].k = "ship"
    /\ ret.on = <<>> /\ ThisShip = DefaultShip

\* C20: save() is atomic for its caller. Whether it returns Ok or an error,
\* the file then holds what it held before or the complete new document.
C20_SaveAtomic ==
    [][(Save \/ \E step \in SaveSteps, torn \in BOOLEAN : SaveFault(step, torn))
           => (file' = file \/ file' = File(Document(ThisShip)))]_vars

\* C21: convert() classifies the header first. A header that contains
\* "SpringSharp Version 3.0" is accepted (convert() goes on to the fields); one
\* that contains "SpringSharp" without it fails with "SpringSharp file too
\* old"; any other fails with "Unknown file format"; and in both failing
\* cases no Ship is returned, whatever follows the header.
C21_HeaderClassified ==
    (ret.op = "convert" /\ Len(ret.args) >= 1) =>
        LET header == ret.args[1]
            too_old == ret.s = "error" /\ ret.lines = <<"SpringSharp file too old">>
            unknown == ret.s = "error" /\ ret.lines = <<"Unknown file format">>
        IN  /\ Contains(header, Version3) => (~too_old /\ ~unknown)
            /\ (Contains(header, <<"SpringSharp">>) /\ ~Contains(header, Version3))
                   => (too_old /\ ret.on = <<>>)
            /\ ~Contains(header, <<"SpringSharp">>) => (unknown /\ ret.on = <<>>)

\* C21 witness: convert() has refused a whole file for its old header.
C21_Witness ==
    /\ ret.op = "convert" /\ Len(ret.args) = NumFields + 1
    /\ ret.args[1].words = <<"SpringSharp", "Version", "2.1">>
    /\ ret.s = "error" /\ ret.lines = <<"SpringSharp file too old">>
    /\ ret.on = <<>>

\* The six placements of battery b of a converted Ship, added up in u32:
\* <<high, low>> halves, modulo 2^32.
PlacementSum(sh, b) ==
    LET g == sh.batteries[b].groups
        low == g[1].above + g[1].on[2] + g[1].below +
               g[2].above + g[2].on[2] + g[2].below
        high == g[1].on[1] + g[2].on[1] + (low \div U32Half)
    IN  <<high % U32Half, low % U32Half>>

C23_MalformedIsErr ==
    (/\ ret.op = "convert" /\ Len(ret.args) >= 1
     /\ Contains(ret.args[1], Version3)
     /\ \E i \in 2..(NumFields + 1) : Stops(ret.args, i))
        => (ret.s = "error" /\ ret.on = <<>>)

\* C24 as claimed: for a design year y below 1900 str_long() is its undated
\* value times the linear factor 1 - (1900 - y)/100 (0.5 at 1850, 0.9 at
\* 1890), and from 1900 on it is the undated value.
C24_LinearDerating ==
    ret.op = "str_long" =>
        IF ret.n < 1900
        THEN Near(ret.f, FMul(ret.aux, FSub(F(1), Lit(1900 - ret.n, 100))))
        ELSE FEq(ret.f, ret.aux)

\* C30 as claimed: str_long() computes its year factor without wrapping and
\* without aborting, whatever the year.
C30_NoUnderflow ==
    [][CallStrLong => (ret'.op = "str_long" /\ str_long_year_factor[1] = 0)]_vars

\* The shape the metrics and the report rely on: at most 5 batteries, 2
\* torpedo mounts, 2 ASW records, a trim of 0..100, and with that the
\* elements batteries[0..2], torps[0..1] and asw[0..1] present.
ShipShape(sh) ==
    /\ Len(sh.batteries) <= NumBatteries
    /\ Len(sh.torps) = NumTorps
    /\ Len(sh.asw) = 2
    /\ sh.trim \in 0..100
    /\ Len(sh.batteries) >= 3 /\ Len(sh.torps) >= 2 /\ Len(sh.asw) >= 2

\* C25 as claimed: Ship::default() and every Ship that a successful load() or
\* convert() returns has at most 5 batteries, exactly 2 torpedo mounts,
\* exactly 2 ASW records and a trim within 0..100, so the indexed accesses of
\* the metrics and the report are in range.
C25_ShipShape ==
    /\ ShipShape(DefaultShip)
    /\ (ret.op \in {"load", "convert"} /\ ret.s = "ok") => ShipShape(ret.on)

\* C26 as claimed: the hull weight and the seven weights it is the remainder
\* of add up to exactly hull.d().
C26_WeightsExact ==
    ret.op = "wgt_hull" => FEq(WgtTotal(ret.args), ret.aux)

\* The magnitudes of the displacement and of the weights, added up.
Magnitude(d, w) == FAdd(FAbs(d), SumSeq([i \in 1..Len(w) |-> FAbs(w[i])]))

\* One part in a thousand: well above the rounding of the fourteen
\* subtractions and additions in six significant digits.
RoundingOf(x) == FMul(x, Lit(1, 1000))

\* C26 (as the code has it): for a Ship whose displacement and weights are
\* finite, the hull weight and the seven weights subtracted from hull.d() add
\* up to hull.d() to within the rounding of the additions, also when the
\* hull weight is negative.
C26_WeightsAddUp ==
    (ret.op = "wgt_hull" /\ IsFinite(ret.aux)
        /\ \A i \in 1..Len(ret.args) : IsFinite(ret.args[i]))
    => Within(WgtTotal(ret.args), ret.aux,
              RoundingOf(Magnitude(ret.aux, ret.args)))

\* C26 witness: a ship whose hull weight is negative, and whose weights add
\* up to the displacement within rounding but not exactly.
C26_Witness ==
    /\ ret.op = "wgt_hull" /\ IsFinite(ret.aux) /\ FLt(ret.f, Zero)
    /\ ~FEq(WgtTotal(ret.args), ret.aux)
    /\ Within(WgtTotal(ret.args), ret.aux,
              RoundingOf(Magnitude(ret.aux, ret.args)))

CautionLine == "Caution: Poor stability - excessive risk of capsizing"

\* C27: for a ship of positive beam capsize_warn() implies tender_warn(),
\* capsize_warn() being stability_adj() <= 0.5; and a report never carries
\* both the capsize failure and the poor-stability caution: the caution is
\* there exactly when tender_warn() holds and capsize_warn() does not.
C27_CapsizeImpliesTender ==
    [][/\ (CallTenderWarn /\ FGt(ret'.aux, Zero)) =>
              /\ (ret'.s = "capsize") => ret'.b
              /\ (ret'.s = "capsize") <=> FLe(ret'.f, Lit(5, 10))
       /\ (Report /\ out'.status = "ok") =>
              /\ ~(CapsizeLine \in Lines(out') /\ CautionLine \in Lines(out'))
              /\ (CautionLine \in Lines(out')) <=>
                     (FLe(stability_adj, Lit(995, 1000))
                        /\ ~(CapsizeLine \in Lines(out')))]_vars

\* C27 witness: a ship of positive beam for which both warnings hold, whose
\* report carries the failure and not the caution.
C27_Witness ==
    /\ ret.op = "tender_warn" /\ ret.b /\ ret.s = "capsize"
    /\ FGt(ret.aux, Zero) /\ FGt(ret.f, Zero)
    /\ out.status = "ok" /\ CapsizeLine \in Lines(out)
    /\ CautionLine \notin Lines(out)

\* C27 witness of the caution: a tender ship that does not capsize has been
\* reported with the caution.
C27_WitnessCaution ==
    /\ ret.op = "tender_warn" /\ ret.b /\ ret.s = ""
    /\ out.status = "ok" /\ CautionLine \in Lines(out)

\* C28 as claimed: the divisor of damage_shell_num() is never zero, so the
\* shell-hit count is a finite number for every design year, and 0 when
\* flotation() is 0.
C28_ShellNumDefined ==
    ret.op = "damage_shell_num" =>
        /\ ~FEq(ret.aux, Zero)
        /\ IsFinite(ret.f)
        /\ FEq(ret.args[1], Zero) => FEq(ret.f, Zero)

\* C29 as claimed: for a ship without guns gun_super_factor() divides by
\* nothing that is zero, and stability(), stability_adj() and metacenter()
\* are numbers, not the result of 0/0.
C29_GunlessDefined ==
    (ret.op = "stability" /\ ret.b) =>
        /\ ~FEq(ret.divs[1], Zero)
        /\ ~IsNaN(ret.aux) /\ ~IsNaN(ret.f)
        /\ \A i \in 1..Len(ret.args) : ~IsNaN(ret.args[i])

====
